---- MODULE Spec2Model ----
(***************************************************************************)
(* State-machine model of the docAgentv2 document pipeline:               *)
(*   utils/doc_classifier.py  DocumentClassifier                          *)
(*   utils/extractor.py       GeminiExtractor                             *)
(*   utils/confidence.py      ConfidenceScorer                            *)
(* Scores and confidences are exact rationals [n, d] in lowest terms, so  *)
(* that the comparisons against 0.6, 0.7, 0.75 ... are decided as the     *)
(* correctly rounded floating-point code decides them.                    *)
(***************************************************************************)
EXTENDS Integers, Sequences, FiniteSets, TLC

VARIABLES
    op,          \* which operation the current run performs / has performed
    pc,          \* position of the running operation
    text,        \* classifier input: keyword and pattern hits of the text
    extractor,   \* classifier input: is a model-service collaborator supplied
    answer,      \* what the model service did when asked to classify
    heur,        \* classify's local (doc_type, confidence) from the heuristics
    gemini,      \* classify's local (gemini_type, gemini_confidence), if consulted
    docType,     \* extractor input: the requested document type
    requested,   \* self-consistency input: num_runs (0 stands for None/0)
    data,        \* input record of fix_validation_errors / assess_confidence
    attempt,     \* self-consistency loop variable i
    results,     \* self-consistency attempt log (the list `results`)
    served,      \* responses the model service has returned, in call order
    planned,     \* concurrent run: the response the service gives each attempt
    inflight,    \* concurrent run: attempts started and not yet finished
    completed,   \* concurrent run: attempt entries in completion order
    field,       \* inputs of calculate_field_confidence
    confidences, \* identify_low_confidence_fields input: (path, score) items
    threshold,   \* the scorer's low_confidence_threshold
    validation,  \* the validation_result returned by validate_document
    calls,       \* number of model-service calls made by the operation
    raised,      \* TRUE when the operation let an exception escape
    result,      \* what the operation returned
    use_self_consistency, \* pipeline input: the self-consistency flag / checkbox
    stages,      \* command-line pipeline: the stages entered so far, in order
    session,     \* interactive app: st.session_state
    origin       \* interactive app: the run and the record each session entry came from

classifierVars == <<text, extractor, answer, heur, gemini>>
extractorVars == <<docType, requested, data, attempt, results, served>>
concurrentVars == <<planned, inflight, completed>>
scorerVars == <<field, confidences, threshold>>
validatorVars == <<validation>>
cliVars == <<use_self_consistency, stages>>
appVars == <<session, origin>>
vars == <<op, pc, classifierVars, extractorVars, concurrentVars, scorerVars, validatorVars,
          calls, raised, result, cliVars, appVars>>

None == "None"

(***************************************************************************)
(* Rationals                                                               *)
(***************************************************************************)
RECURSIVE GCD(_, _)
GCD(a, b) == IF b = 0 THEN a ELSE GCD(b, a % b)

Rat(n, d) == LET g == GCD(n, d) IN [n |-> n \div g, d |-> d \div g]

RatLt(a, b) == a.n * b.d < b.n * a.d
RatLe(a, b) == a.n * b.d <= b.n * a.d
RatMin(a, b) == IF RatLt(b, a) THEN b ELSE a

RatMax(a, b) == IF RatLt(a, b) THEN b ELSE a
RatAdd(a, b) == Rat(a.n * b.d + b.n * a.d, a.d * b.d)
RatMul(a, b) == Rat(a.n * b.n, a.d * b.d)

Zero == Rat(0, 1)
One == Rat(1, 1)
Half == Rat(1, 2)

(***************************************************************************)
(* DocumentClassifier                                                      *)
(***************************************************************************)
\* Bounds on the texts explored: hits per keyword list and per pattern list.
MaxKeywordHits == 7
MaxPatternHits == 2

\* Order of the scores dict built by classify_by_heuristics.
DocTypes == <<"invoice", "bill", "prescription">>
ValidTypes == {"invoice", "bill", "prescription"}

\* A text, as the classifier sees it: how many keywords of each list it
\* contains and how many patterns of each list match it.
Texts == [kw : [ValidTypes -> 0..MaxKeywordHits],
          pat : [ValidTypes -> 0..MaxPatternHits]]

EmptyText == [kw |-> [t \in ValidTypes |-> 0], pat |-> [t \in ValidTypes |-> 0]]

CountKeywords(txt, t) == txt.kw[t]

PatternWeight == 2

PatternMatching(txt) == [t \in ValidTypes |-> PatternWeight * txt.pat[t]]

Scores(txt) == [t \in ValidTypes |-> CountKeywords(txt, t) + PatternMatching(txt)[t]]

\* max(scores, key=scores.get): the first key, in insertion order, with the
\* maximal score.
MaxType(scores) ==
    LET best(i) == \A j \in 1..Len(DocTypes) : scores[DocTypes[j]] <= scores[DocTypes[i]]
        first == CHOOSE i \in 1..Len(DocTypes) :
                    best(i) /\ \A j \in 1..(i - 1) : ~best(j)
    IN DocTypes[first]

\* sorted(scores.values(), reverse=True)[1]
SecondScore(scores) ==
    LET mt == MaxType(scores)
        rest == ValidTypes \ {mt}
    IN CHOOSE v \in {scores[t] : t \in rest} : \A t \in rest : scores[t] <= v

MarginCap == Rat(95, 100)
SingleCap == Rat(9, 10)
HeuristicThreshold == Rat(6, 10)

HeuristicConfidenceMut(maxScore, second) ==
    IF second > 0 THEN Rat(maxScore, maxScore + second)
    ELSE Rat(maxScore, 10)

HeuristicConfidence(maxScore, second) ==
    IF second > 0 THEN RatMin(MarginCap, Rat(maxScore, maxScore + second))
    ELSE RatMin(SingleCap, Rat(maxScore, 10))

ClassifyByHeuristicsMut(txt) ==
    LET scores == Scores(txt)
        maxType == MaxType(scores)
        maxScore == scores[maxType]
        confidence == HeuristicConfidence(maxScore, SecondScore(scores))
    IN IF maxScore = 0 THEN [type |-> None, conf |-> Zero]
       ELSE IF RatLe(confidence, HeuristicThreshold)
            THEN [type |-> None, conf |-> confidence]
            ELSE [type |-> maxType, conf |-> confidence]

ClassifyByHeuristics(txt) ==
    LET scores == Scores(txt)
        maxType == MaxType(scores)
        maxScore == scores[maxType]
        confidence == HeuristicConfidence(maxScore, SecondScore(scores))
    IN IF maxScore = 0 THEN [type |-> None, conf |-> Zero]
       ELSE IF RatLt(confidence, HeuristicThreshold)
            THEN [type |-> None, conf |-> confidence]
            ELSE [type |-> maxType, conf |-> confidence]

\* What the model service can do when asked to classify: answer one of the
\* valid types, answer another text, return an error mapping (call_gemini
\* catches the failure and returns text '' with an error), or raise.
ServiceAnswers == ValidTypes \cup {"other", "error", "raises"}

GeminiValidConfidence == Rat(75, 100)
GeminiInvalidConfidence == Rat(5, 10)
GeminiFailureConfidence == Rat(3, 10)

ClassifyWithGemini(ans) ==
    IF ans = "raises" THEN [type |-> "invoice", conf |-> GeminiFailureConfidence]
    ELSE LET classification == IF ans = "error" THEN "" ELSE ans
         IN IF classification \in ValidTypes
            THEN [type |-> classification, conf |-> GeminiValidConfidence]
            ELSE [type |-> "invoice", conf |-> GeminiInvalidConfidence]

DirectThreshold == Rat(7, 10)
DefaultClassificationMut == [type |-> None, conf |-> Zero]
DefaultClassification == [type |-> "invoice", conf |-> GeminiFailureConfidence]

\* Whether classify consults the model service.
ConsultsGemini(h, ext) ==
    /\ ~(h.type # None /\ RatLt(DirectThreshold, h.conf))
    /\ ext
    /\ RatLt(h.conf, DirectThreshold)

GeminiWinsMut(h, ext, ans) ==
    /\ ConsultsGemini(h, ext)
    /\ RatLe(h.conf, ClassifyWithGemini(ans).conf)

\* Whether the model's result is the one classify returns.
GeminiWins(h, ext, ans) ==
    /\ ConsultsGemini(h, ext)
    /\ RatLt(h.conf, ClassifyWithGemini(ans).conf)

ClassifyResult(txt, ext, ans) ==
    LET h == ClassifyByHeuristics(txt)
    IN IF h.type # None /\ RatLt(DirectThreshold, h.conf) THEN h
       ELSE IF GeminiWins(h, ext, ans) THEN ClassifyWithGemini(ans)
       ELSE IF h.type # None THEN h
       ELSE DefaultClassification

NoAnswer == "unasked"
NoPair == [type |-> None, conf |-> Zero]

\* Values of the variables an operation does not use.
ClassifierIdle ==
    /\ text = EmptyText
    /\ extractor = FALSE
    /\ answer = NoAnswer
    /\ heur = NoPair
    /\ gemini = NoPair

ExtractorIdle ==
    /\ docType = None
    /\ requested = 0
    /\ data = [t |-> "null"]
    /\ attempt = 0
    /\ results = <<>>
    /\ served = <<>>

ConcurrentIdle ==
    /\ planned = <<>>
    /\ inflight = {}
    /\ completed = <<>>

\* validation_result as validate_document initialises it
NoValidation ==
    [is_valid |-> TRUE, errors |-> <<>>, warnings |-> <<>>, field_validations |-> <<>>]

ValidatorIdle == validation = NoValidation

\* ConfidenceScorer.__init__: low_confidence_threshold = 0.7
LowConfidenceThreshold == Rat(7, 10)

ScorerIdle ==
    /\ field = [path |-> None]
    /\ confidences = <<>>
    /\ threshold = LowConfidenceThreshold

CliIdle ==
    /\ use_self_consistency = FALSE
    /\ stages = <<>>

\* initialize_session_state
NoSession ==
    [extracted_data |-> [t |-> "null"],
     confidence_scores |-> {},
     validation_result |-> [t |-> "null"],
     ocr_result |-> [t |-> "null"],
     doc_type |-> None,
     processing_complete |-> FALSE]

\* No run of process_document has started and none has written an entry.
NoOrigin ==
    [run |-> 0, ocr_result |-> 0, doc_type |-> 0, extracted_data |-> 0,
     confidence_scores |-> 0, validation_result |-> 0,
     scored |-> [t |-> "null"], validated |-> [t |-> "null"]]

AppIdle ==
    /\ session = NoSession
    /\ origin = NoOrigin

InitClassify ==
    /\ op \in {"classify", "classify_by_heuristics"}
    /\ pc = "start"
    /\ text \in Texts
    /\ extractor \in (IF op = "classify" THEN BOOLEAN ELSE {FALSE})
    /\ answer = NoAnswer
    /\ heur = NoPair
    /\ gemini = NoPair
    /\ ExtractorIdle
    /\ ConcurrentIdle
    /\ ScorerIdle
    /\ calls = 0
    /\ raised = FALSE
    /\ CliIdle
    /\ AppIdle
    /\ ValidatorIdle
    /\ result = NoPair

\* DocumentClassifier.classify_by_heuristics, called on its own
HeuristicsOnly ==
    /\ op = "classify_by_heuristics"
    /\ pc = "start"
    /\ result' = ClassifyByHeuristics(text)
    /\ pc' = "done"
    /\ UNCHANGED <<cliVars, appVars, op, text, extractor, answer, heur, gemini, calls, raised, extractorVars,
                   concurrentVars, scorerVars, validatorVars>>

\* DocumentClassifier.classify
Classify ==
    /\ op = "classify"
    /\ pc = "start"
    /\ heur' = ClassifyByHeuristics(text)
    /\ \E ans \in ServiceAnswers :
          LET consults == ConsultsGemini(ClassifyByHeuristics(text), extractor)
          IN /\ answer' = IF consults THEN ans ELSE NoAnswer
             /\ gemini' = IF consults THEN ClassifyWithGemini(ans) ELSE NoPair
             /\ calls' = IF consults THEN 1 ELSE 0
             /\ result' = ClassifyResult(text, extractor, ans)
    /\ pc' = "done"
    /\ UNCHANGED <<cliVars, appVars, op, text, extractor, raised, extractorVars,
                   concurrentVars, scorerVars, validatorVars>>

NextClassify == Classify \/ HeuristicsOnly

SpecClassify == InitClassify /\ [][NextClassify]_vars

Classified == op = "classify" /\ pc = "done"

\* C1 (as stated): classify called on the empty text returns (None, 0.0).
C1_Original ==
    (Classified /\ text = EmptyText) => result = [type |-> None, conf |-> Zero]

\* C1 (amended): on the empty text classify_by_heuristics returns (None, 0.0),
\* while classify returns ('invoice', 0.3) when no model service is supplied
\* and the model service's result when one is supplied.
C1_EmptyText ==
    (pc = "done" /\ text = EmptyText) =>
        /\ op = "classify_by_heuristics" => result = [type |-> None, conf |-> Zero]
        /\ op = "classify" =>
              /\ heur = [type |-> None, conf |-> Zero]
              /\ ~extractor => result = [type |-> "invoice", conf |-> Rat(3, 10)]
              /\ extractor => (answer # NoAnswer /\ result = gemini)

C1_Witness == Classified /\ text = EmptyText /\ ~extractor

\* C2: classify always returns a type in {invoice, bill, prescription} and a
\* confidence in [0.0, 1.0], with or without a model service and whatever the
\* service does; when the heuristics kept no type and no model result wins
\* (no service consulted, or its confidence does not exceed the heuristic
\* confidence) the result is ('invoice', 0.3).
C2_ClassifyRange ==
    Classified =>
        /\ result.type \in ValidTypes
        /\ RatLe(Zero, result.conf) /\ RatLe(result.conf, One)
        /\ (heur.type = None /\ (answer = NoAnswer \/ ~RatLt(heur.conf, gemini.conf)))
              => result = [type |-> "invoice", conf |-> Rat(3, 10)]

C2_Witness ==
    /\ Classified
    /\ heur.type = None
    /\ answer # NoAnswer
    /\ ~RatLt(heur.conf, gemini.conf)

(***************************************************************************)
(* JSON values, as json.loads builds them                                  *)
(***************************************************************************)
Str(x) == [t |-> "str", s |-> x]
Num(x) == [t |-> "num", q |-> x]
Null == [t |-> "null"]
Dict(fn) == [t |-> "dict", f |-> fn]
List(xs) == [t |-> "list", items |-> xs]

TagKey == "document_type"

\* Records and other JSON values a model response can hold.
DictTagged == Dict([document_type |-> Str("invoice"), invoice_number |-> Str("INV-1")])
DictUntagged == Dict([invoice_number |-> Str("INV-2")])
ListOneDict == List(<<DictUntagged>>)
ListTwoDicts == List(<<DictTagged, DictUntagged>>)
ListTagString == List(<<Str(TagKey)>>)
StrTag == Str("see document_type")
NumFive == Num(Rat(5, 1))

ExtractionValues ==
    {DictTagged, DictUntagged, ListOneDict, ListTwoDicts, ListTagString,
     StrTag, NumFive, Null}

\* Strings of the model that contain the substring 'document_type'.
ContainsTag(x) == x \in {TagKey, "see document_type"}

(***************************************************************************)
(* Model-service responses (GeminiExtractor.call_gemini)                   *)
(*   error : the mapping carries an 'error' key (and text '')              *)
(*   prose : the text has words around its payload                         *)
(*   body  : the payload: none, a brace-delimited text that is not JSON,   *)
(*           or the text of a JSON value                                   *)
(***************************************************************************)
NoBody == [k |-> "none"]
BrokenBody == [k |-> "broken"]
JsonBody(v) == [k |-> "json", val |-> v]

ErrorResponse == [error |-> TRUE, prose |-> FALSE, body |-> NoBody]

TextResponses(values) ==
    {[error |-> FALSE, prose |-> pr, body |-> b] :
        pr \in BOOLEAN, b \in {NoBody, BrokenBody} \cup {JsonBody(v) : v \in values}}

ResponsesOver(values) == {ErrorResponse} \cup TextResponses(values)

Responses == ResponsesOver(ExtractionValues)

\* json.loads(response['text']): the value, or JSONDecodeError.
JsonLoads(resp) ==
    IF ~resp.prose /\ resp.body.k = "json"
    THEN [ok |-> TRUE, val |-> resp.body.val]
    ELSE [ok |-> FALSE, val |-> Null]

\* The JSON objects of a value that lie inside no other object, in text order.
RECURSIVE OuterDicts(_), OuterDictsFrom(_, _)
OuterDicts(v) ==
    IF v.t = "dict" THEN <<v>>
    ELSE IF v.t = "list" THEN OuterDictsFrom(v.items, 1)
    ELSE <<>>
OuterDictsFrom(xs, i) ==
    IF i > Len(xs) THEN <<>> ELSE OuterDicts(xs[i]) \o OuterDictsFrom(xs, i + 1)

\* _extract_json_from_text followed by json.loads of what it found: the text
\* from the first '{' to the last '}', else from the first '[' to the last ']'.
\*   found : the regular expressions matched;  ok : the match parsed
SalvageJson(resp) ==
    LET b == resp.body
        miss == [found |-> FALSE, ok |-> FALSE, val |-> Null]
        bad == [found |-> TRUE, ok |-> FALSE, val |-> Null]
        good(v) == [found |-> TRUE, ok |-> TRUE, val |-> v]
    IN IF b.k = "none" THEN miss
       ELSE IF b.k = "broken" THEN bad
       ELSE IF b.val.t = "dict" THEN good(b.val)
       ELSE IF b.val.t = "list"
            THEN LET ds == OuterDicts(b.val)
                 IN IF Len(ds) = 0 THEN good(b.val)
                    ELSE IF Len(ds) = 1 THEN good(ds[1])
                    ELSE bad
       ELSE miss

(***************************************************************************)
(* GeminiExtractor.extract_structured_data                                 *)
(***************************************************************************)
ServiceError == "service error"
InvalidJson == "Invalid JSON response"
TypeErrorText == "TypeError"

\* 'document_type' not in extracted_data, then extracted_data[...] = doc_type:
\* the tagged value, or "TypeError" where Python raises one.
InjectTag(v, dt) ==
    IF v.t = "dict"
    THEN IF TagKey \in DOMAIN v.f THEN [ok |-> TRUE, val |-> v]
         ELSE [ok |-> TRUE,
               val |-> Dict([k \in DOMAIN v.f \cup {TagKey} |->
                              IF k = TagKey THEN Str(dt) ELSE v.f[k]])]
    ELSE IF v.t = "list"
    THEN IF \E i \in 1..Len(v.items) : v.items[i] = Str(TagKey)
         THEN [ok |-> TRUE, val |-> v]
         ELSE [ok |-> FALSE, val |-> Null]
    ELSE IF v.t = "str"
    THEN IF ContainsTag(v.s) THEN [ok |-> TRUE, val |-> v]
         ELSE [ok |-> FALSE, val |-> Null]
    ELSE [ok |-> FALSE, val |-> Null]

Failure(msg) == [data |-> Null, success |-> FALSE, error |-> msg]

ExtractStructuredData(resp, dt) ==
    IF resp.error THEN Failure(ServiceError)
    ELSE LET direct == JsonLoads(resp)
         IN IF direct.ok
            THEN LET tagged == InjectTag(direct.val, dt)
                 IN IF tagged.ok
                    THEN [data |-> tagged.val, success |-> TRUE]
                    ELSE Failure(TypeErrorText)
            ELSE LET cleaned == SalvageJson(resp)
                     tagged == InjectTag(cleaned.val, dt)
                 IN IF cleaned.found /\ cleaned.ok /\ tagged.ok
                    THEN [data |-> tagged.val, success |-> TRUE,
                          warning |-> "JSON extracted from mixed response"]
                    ELSE Failure(InvalidJson)

(***************************************************************************)
(* GeminiExtractor.self_consistency_extraction                             *)
(***************************************************************************)
MaxRuns == 3
SelfConsistencyRuns == 3

NumRunsMut(req) == IF req = 0 THEN SelfConsistencyRuns ELSE req - 1

\* num_runs or config.SELF_CONSISTENCY_RUNS
NumRuns(req) == IF req = 0 THEN SelfConsistencyRuns ELSE req

ParseFailed == "JSON parsing failed"
AllFailed == "All extraction attempts failed"

\* The service failed, or its text neither parses nor yields a parsable
\* object or array: what the attempt log records as a failed attempt.
AttemptFails(resp) ==
    resp.error \/ (~JsonLoads(resp).ok /\ ~SalvageJson(resp).ok)

\* The record json.loads produced for a response whose attempt succeeds.
ParsedRecord(resp) ==
    IF JsonLoads(resp).ok THEN JsonLoads(resp).val ELSE SalvageJson(resp).val

AttemptEntryMut(i, resp) ==
    IF AttemptFails(resp)
    THEN [error |-> ParseFailed, attempt |-> i, success |-> FALSE]
    ELSE [data |-> ParsedRecord(resp), attempt |-> i, success |-> TRUE]

\* The entry the loop body appends for loop index i and the response it got.
AttemptEntry(i, resp) ==
    IF ~resp.error
    THEN LET direct == JsonLoads(resp)
         IN IF direct.ok
            THEN [data |-> direct.val, attempt |-> i + 1, success |-> TRUE]
            ELSE LET cleaned == SalvageJson(resp)
                 IN IF cleaned.found /\ cleaned.ok
                    THEN [data |-> cleaned.val, attempt |-> i + 1, success |-> TRUE,
                          warning |-> "Cleaned JSON"]
                    ELSE [error |-> ParseFailed, attempt |-> i + 1, success |-> FALSE]
    ELSE [error |-> ServiceError, attempt |-> i + 1, success |-> FALSE]

AppendResultMut(log, entry) == <<entry>> \o log

\* results.append(entry)
AppendResult(log, entry) == Append(log, entry)

Successful(log) == SelectSeq(log, LAMBDA r : r.success)

PickConsensusMut(successful) == successful[Len(successful)]

\* successful_results[0]
PickConsensus(successful) == successful[1]

\* The analysis after the loop.
Consensus(log, n) ==
    LET successful == Successful(log)
    IN IF Len(successful) = 0
       THEN [data |-> Null, success |-> FALSE, error |-> AllFailed, results |-> log]
       ELSE [data |-> PickConsensus(successful).data,
             success |-> TRUE,
             consistency_rate |-> Rat(Len(successful), n),
             successful_attempts |-> Len(successful),
             total_attempts |-> n,
             results |-> log]

(***************************************************************************)
(* GeminiExtractor.fix_validation_errors                                   *)
(***************************************************************************)
FixValidationErrorsMut(record, resp) ==
    IF resp.error THEN record
    ELSE IF JsonLoads(resp).ok THEN JsonLoads(resp).val
    ELSE IF SalvageJson(resp).ok THEN SalvageJson(resp).val
    ELSE record

FixValidationErrors(record, resp) ==
    IF resp.error THEN record
    ELSE LET fixed == JsonLoads(resp)
         IN IF fixed.ok THEN fixed.val ELSE record

FixRecords == {DictTagged, DictUntagged}

NoResult == [success |-> FALSE]

InitExtract ==
    /\ op \in {"extract_structured_data", "self_consistency_extraction",
               "fix_validation_errors"}
    /\ pc = "start"
    /\ ClassifierIdle
    /\ ConcurrentIdle
    /\ ScorerIdle
    /\ docType \in ValidTypes
    /\ requested \in (IF op = "self_consistency_extraction" THEN 0..MaxRuns ELSE {0})
    /\ data \in (IF op = "fix_validation_errors" THEN FixRecords ELSE {Null})
    /\ attempt = 0
    /\ results = <<>>
    /\ served = <<>>
    /\ calls = 0
    /\ raised = FALSE
    /\ CliIdle
    /\ AppIdle
    /\ ValidatorIdle
    /\ result = NoResult

ExtractStructured ==
    /\ op = "extract_structured_data"
    /\ pc = "start"
    /\ \E resp \in Responses :
          /\ served' = Append(served, resp)
          /\ result' = ExtractStructuredData(resp, docType)
    /\ calls' = calls + 1
    /\ pc' = "done"
    /\ UNCHANGED <<cliVars, appVars, op, classifierVars, concurrentVars, scorerVars, validatorVars,
                   docType, requested, data, attempt, results, raised>>

\* One iteration of `for i in range(num_runs)`.
SelfConsistencyAttempt ==
    /\ op = "self_consistency_extraction"
    /\ pc = "start"
    /\ attempt < NumRuns(requested)
    /\ \E resp \in Responses :
          /\ served' = Append(served, resp)
          /\ results' = AppendResult(results, AttemptEntry(attempt, resp))
    /\ calls' = calls + 1
    /\ attempt' = attempt + 1
    /\ UNCHANGED <<cliVars, appVars, op, pc, classifierVars, concurrentVars, scorerVars, validatorVars,
                   docType, requested, data, raised, result>>

\* The loop is over: consensus and return.
SelfConsistencyReturn ==
    /\ op = "self_consistency_extraction"
    /\ pc = "start"
    /\ attempt = NumRuns(requested)
    /\ result' = Consensus(results, NumRuns(requested))
    /\ pc' = "done"
    /\ UNCHANGED <<cliVars, appVars, op, classifierVars, extractorVars, concurrentVars, scorerVars, validatorVars,
                   calls, raised>>

FixErrors ==
    /\ op = "fix_validation_errors"
    /\ pc = "start"
    /\ \E resp \in Responses :
          /\ served' = Append(served, resp)
          /\ result' = FixValidationErrors(data, resp)
    /\ calls' = calls + 1
    /\ pc' = "done"
    /\ UNCHANGED <<cliVars, appVars, op, classifierVars, concurrentVars, scorerVars, validatorVars,
                   docType, requested, data, attempt, results, raised>>

NextExtract ==
    \/ ExtractStructured
    \/ SelfConsistencyAttempt
    \/ SelfConsistencyReturn
    \/ FixErrors

SpecExtract == InitExtract /\ [][NextExtract]_vars

Extracted == op = "extract_structured_data" /\ pc = "done"
Voted == op = "self_consistency_extraction" /\ pc = "done"
Fixed == op = "fix_validation_errors" /\ pc = "done"

HasRootTag(v) == v.t = "dict" /\ TagKey \in DOMAIN v.f

\* C3: every record returned with success=true by extract_structured_data, and
\* every consensus record returned with success=true by
\* self_consistency_extraction, carries a document_type tag at its root.
\* Stated for the results whose record is a mapping.
C3_RootTag ==
    ((Extracted \/ Voted) /\ result.success /\ result.data.t = "dict")
        => HasRootTag(result.data)

AllAttemptsFail == \A k \in 1..Len(served) : AttemptFails(served[k])

FailedLog(n) ==
    /\ Len(result.results) = n
    /\ \A k \in 1..n : ~result.results[k].success /\ result.results[k].attempt = k

\* C4: when every one of the n attempts fails, the result has success=false,
\* record null, error "All extraction attempts failed", successfulAttempts=0
\* and the full attempt log of n failed entries.
C4_AllFailed ==
    (Voted /\ AllAttemptsFail) =>
        /\ ~result.success
        /\ result.data = Null
        /\ result.error = AllFailed
        /\ FailedLog(NumRuns(requested))
        /\ "successful_attempts" \in DOMAIN result
        /\ result.successful_attempts = 0

\* Index of the first response whose attempt succeeds.
FirstSuccess ==
    CHOOSE k \in 1..Len(served) :
        ~AttemptFails(served[k]) /\ \A j \in 1..(k - 1) : AttemptFails(served[j])

C6_AttemptLog ==
    (Voted /\ result.success /\ requested >= 1) =>
        LET log == result.results
            good == Cardinality({k \in 1..Len(log) : log[k].success})
        IN /\ Len(log) = requested
           /\ \A k \in 1..Len(log) : log[k].attempt = k
           /\ result.total_attempts = requested
           /\ result.successful_attempts = good
           /\ result.consistency_rate.n * requested = good * result.consistency_rate.d

C6_Witness ==
    /\ Voted
    /\ result.success
    /\ requested = 3
    /\ result.successful_attempts = 2
    /\ result.consistency_rate = Rat(2, 3)

\* C8: fix_validation_errors never raises; whenever the model service returns
\* an error or a response that does not parse, it returns the record it was
\* given, with the same fields and values.
C8_FixKeepsRecord ==
    Fixed =>
        /\ ~raised
        /\ (served[1].error \/ ~JsonLoads(served[1]).ok) => result = data

C8_Witness ==
    /\ Fixed
    /\ ~served[1].error
    /\ served[1].prose
    /\ served[1].body = JsonBody(DictTagged)
    /\ data = DictUntagged
    /\ result = data

(***************************************************************************)
(* The self-consistency attempts run concurrently (spec section 5): a      *)
(* bounded pool starts attempts in any order, each attempt finishes when   *)
(* its response arrives, and after the barrier the log is ordered by       *)
(* attempt index before the consensus code runs.  The attempt body and the *)
(* consensus are those of the sequential code.                             *)
(***************************************************************************)
MaxWorkers == 2

\* Responses of the concurrent runs: a service error, an unparsable text, a
\* record, another record wrapped in prose (salvaged), and JSON null.
ConcurrentResponses ==
    {ErrorResponse,
     [error |-> FALSE, prose |-> FALSE, body |-> BrokenBody],
     [error |-> FALSE, prose |-> FALSE, body |-> JsonBody(DictTagged)],
     [error |-> FALSE, prose |-> TRUE, body |-> JsonBody(DictUntagged)],
     [error |-> FALSE, prose |-> FALSE, body |-> JsonBody(Null)]}

\* The result of the sequential loop over the same per-attempt responses.
RECURSIVE SequentialLog(_, _)
SequentialLog(resps, n) ==
    IF n = 0 THEN <<>>
    ELSE AppendResult(SequentialLog(resps, n - 1), AttemptEntry(n - 1, resps[n]))

SequentialResult(resps) == Consensus(SequentialLog(resps, Len(resps)), Len(resps))

\* The log ordered by attempt index.
SortByAttempt(entries) ==
    [k \in 1..Len(entries) |->
        LET at == CHOOSE j \in 1..Len(entries) :
                     Cardinality({m \in 1..Len(entries) :
                                    entries[m].attempt < entries[j].attempt}) = k - 1
        IN entries[at]]

Finished == {completed[j].attempt : j \in 1..Len(completed)}

InitConcurrent ==
    /\ op = "concurrent_self_consistency"
    /\ pc = "start"
    /\ ClassifierIdle
    /\ ExtractorIdle
    /\ ScorerIdle
    /\ \E n \in 1..MaxRuns : planned \in [1..n -> ConcurrentResponses]
    /\ inflight = {}
    /\ completed = <<>>
    /\ calls = 0
    /\ raised = FALSE
    /\ CliIdle
    /\ AppIdle
    /\ ValidatorIdle
    /\ result = NoResult

\* A free worker takes an attempt and calls the model service.
StartAttempt ==
    /\ op = "concurrent_self_consistency"
    /\ pc = "start"
    /\ Cardinality(inflight) < MaxWorkers
    /\ \E k \in (1..Len(planned)) \ (inflight \cup Finished) :
          inflight' = inflight \cup {k}
    /\ calls' = calls + 1
    /\ UNCHANGED <<cliVars, appVars, op, pc, classifierVars, extractorVars, scorerVars, validatorVars,
                   planned, completed, raised, result>>

\* The response of an attempt in flight arrives and is parsed.
FinishAttempt ==
    /\ op = "concurrent_self_consistency"
    /\ pc = "start"
    /\ \E k \in inflight :
          /\ inflight' = inflight \ {k}
          /\ completed' = Append(completed, AttemptEntry(k - 1, planned[k]))
    /\ UNCHANGED <<cliVars, appVars, op, pc, classifierVars, extractorVars, scorerVars, validatorVars,
                   planned, calls, raised, result>>

\* The barrier: every attempt has finished.
JoinAttempts ==
    /\ op = "concurrent_self_consistency"
    /\ pc = "start"
    /\ Len(completed) = Len(planned)
    /\ result' = Consensus(SortByAttempt(completed), Len(planned))
    /\ pc' = "done"
    /\ UNCHANGED <<cliVars, appVars, op, classifierVars, extractorVars, concurrentVars, scorerVars, validatorVars,
                   calls, raised>>

NextConcurrent == StartAttempt \/ FinishAttempt \/ JoinAttempts

SpecConcurrent == InitConcurrent /\ [][NextConcurrent]_vars

Joined == op = "concurrent_self_consistency" /\ pc = "done"

\* C7: with the attempts run concurrently and joined at a barrier, the log
\* ordered by attempt index, the result (success flag, consensus record,
\* successfulAttempts, consistencyRate, attempt log) equals the result of the
\* sequential execution over the same per-attempt responses, under every
\* interleaving and completion order.
C7_ConcurrentEqualsSequential ==
    Joined => result = SequentialResult(planned)

\* Attempt 3 finished first and attempt 1 last, both successful with
\* different records.
C7_Witness ==
    /\ Joined
    /\ Len(completed) = 3
    /\ completed[1].attempt = 3
    /\ completed[3].attempt = 1
    /\ completed[1].success
    /\ completed[3].success
    /\ completed[1].data # completed[3].data
    /\ result.data = completed[3].data

(***************************************************************************)
(* GeminiExtractor.assess_confidence and _default_confidence_scores        *)
(***************************************************************************)
MaxListLen == 1

Leaf == Str("x")
TopKeys == {"name", "items"}
InnerKeys == {"name"}

DictsOver(keys, values) == {Dict(fn) : fn \in UNION {[ks -> values] : ks \in SUBSET keys}}

SeqsUpTo(values, n) == UNION {[1..m -> values] : m \in 0..n}

ListsOver(values) == {List(xs) : xs \in SeqsUpTo(values, MaxListLen)}

\* Values nested one and two levels deep, and the records holding them.
Nodes1 == {Leaf} \cup DictsOver(InnerKeys, {Leaf}) \cup ListsOver({Leaf})
Nodes2 == {Leaf} \cup DictsOver(InnerKeys, Nodes1) \cup ListsOver(Nodes1)
Records == DictsOver(TopKeys, Nodes2)

\* str(i) for a list index.
IndexText(i) == <<"0", "1", "2", "3">>[i + 1]

IsContainer(v) == v.t \in {"dict", "list"}

\* f"{prefix}.{key}" if prefix else key
JoinPath(prefix, key) == IF prefix # "" THEN prefix \o "." \o key ELSE key

\* add_scores(obj, prefix): the field paths that receive a score.
RECURSIVE AddScores(_, _)
AddScores(obj, prefix) ==
    IF obj.t = "dict"
    THEN UNION {IF IsContainer(obj.f[key])
                THEN AddScores(obj.f[key], JoinPath(prefix, key))
                ELSE {JoinPath(prefix, key)} : key \in DOMAIN obj.f}
    ELSE IF obj.t = "list"
    THEN UNION {IF IsContainer(obj.items[i])
                THEN AddScores(obj.items[i], prefix \o "." \o IndexText(i - 1))
                ELSE {} : i \in 1..Len(obj.items)}
    ELSE {}

DefaultConfidenceScores(record) == [path \in AddScores(record, "") |-> Half]

\* JSON values a confidence response can hold: mappings from field paths to
\* scores (numbers in and out of range, a string, null, true), and values
\* that are no mapping.
Bool(x) == [t |-> "bool", b |-> x]

ScoreValues ==
    {Num(Zero), Num(Rat(1, 4)), Num(One), Num(Rat(3, 2)), Num(Rat(-1, 2)),
     Str("high"), Null, Bool(TRUE)}

ScoreMappings ==
    {Dict([date |-> v]) : v \in ScoreValues}
        \cup {Dict([date |-> v, total |-> Num(Rat(9, 10))]) : v \in ScoreValues}

ConfidenceValues == ScoreMappings \cup {List(<<Num(Half)>>), Null}

ConfidenceResponses == ResponsesOver(ConfidenceValues)

\* isinstance(score, (int, float)) and 0 <= score <= 1, else 0.5
ValidatedScore(v) ==
    IF v.t = "num" /\ RatLe(Zero, v.q) /\ RatLe(v.q, One) THEN v.q
    ELSE IF v.t = "bool" THEN (IF v.b THEN One ELSE Zero)
    ELSE Half

\* Whether assess_confidence returns the default scores for this response:
\* an error mapping, an empty text, a JSONDecodeError, or a JSON value
\* without .items() (AttributeError, caught by the outer handler).
FallsBack(resp) ==
    \/ resp.error
    \/ (~resp.prose /\ resp.body.k = "none")
    \/ ~JsonLoads(resp).ok
    \/ JsonLoads(resp).val.t # "dict"

AssessConfidence(record, resp) ==
    IF FallsBack(resp) THEN DefaultConfidenceScores(record)
    ELSE LET scores == JsonLoads(resp).val.f
         IN [fld \in DOMAIN scores |-> ValidatedScore(scores[fld])]

(***************************************************************************)
(* ConfidenceScorer.calculate_field_confidence                             *)
(***************************************************************************)
MaxWords == 2

\* Field paths and the trigger words each contains.
PathWords ==
    [date |-> {"date"},
     total_amount |-> {"total", "amount"},
     shipping_cost |-> {"cost"},
     invoice_number |-> {"number"},
     vendor_name |-> {"name"},
     vendor_email |-> {"email"},
     vendor_phone |-> {"phone"},
     quantity |-> {"quantity"},
     currency |-> {}]

FieldPaths == DOMAIN PathWords

InPath(word, path) == word \in PathWords[path]

\* The value: None, '', a non-empty string, a number by sign, or a list.
ValueTypes == {"None", "empty", "str", "nonneg", "neg", "list"}
IsNumber(vt) == vt \in {"nonneg", "neg"}

\* Model confidences handed in: absent, or a number in or out of range.
NoConfidence == [n |-> 0, d |-> 0]
ModelConfidences ==
    {NoConfidence, Zero, Half, One, Rat(3, 2), Rat(-1, 2), Rat(2, 1)}

NA == "n/a"

\* What the regular expressions and the parse of each sub-check find in a
\* non-empty string value.
DateClasses(vt) == IF vt = "str" THEN {"valid", "invalid", "partial", "none"} ELSE {NA}
AmountClasses(vt) == IF vt = "str" THEN {"currency", "digits", "none"} ELSE {NA}
NumberClasses(vt) == IF vt = "str" THEN {"id_in_text", "id", "none"} ELSE {NA}
NameClasses(vt) == IF vt = "str" THEN {"short", "in_text", "proper", "none"} ELSE {NA}
EmailClasses(vt) == IF vt = "str" THEN {"address", "partial", "none"} ELSE {NA}
PhoneClasses(vt) == IF vt = "str" THEN {"phone", "digits", "none"} ELSE {NA}
LengthClasses(vt) == IF vt = "str" THEN {"long", "short"} ELSE {NA}

\* How str(value) occurs in the original text: the text is empty, an exact
\* match, a case-insensitive match, m of the w words of a value longer than
\* five characters, or nothing.
PresenceClasses ==
    {[k |-> c, m |-> 0, w |-> 0] : c \in {"no_text", "exact", "insensitive", "none"}}
        \cup {[k |-> "words", m |-> m, w |-> w] : m \in 1..MaxWords, w \in 1..MaxWords}

DateConfidence(vt, c) ==
    IF vt # "str" THEN Rat(3, 10)
    ELSE IF c = "valid" THEN Rat(9, 10)
    ELSE IF c = "invalid" THEN Rat(4, 10)
    ELSE IF c = "partial" THEN Rat(6, 10)
    ELSE Rat(2, 10)

AmountConfidence(vt, c) ==
    IF vt = "nonneg" THEN Rat(85, 100)
    ELSE IF vt = "neg" THEN Rat(6, 10)
    ELSE IF vt = "str" /\ c = "currency" THEN Rat(8, 10)
    ELSE IF vt = "str" /\ c = "digits" THEN Rat(5, 10)
    ELSE Rat(2, 10)

NumberConfidence(vt, c) ==
    IF vt # "str" THEN Rat(3, 10)
    ELSE IF c = "id_in_text" THEN Rat(9, 10)
    ELSE IF c = "id" THEN Rat(6, 10)
    ELSE Rat(4, 10)

NameConfidence(vt, c) ==
    IF vt # "str" \/ c = "short" THEN Rat(2, 10)
    ELSE IF c = "in_text" THEN Rat(8, 10)
    ELSE IF c = "proper" THEN Rat(7, 10)
    ELSE Rat(4, 10)

EmailConfidence(vt, c) ==
    IF vt # "str" THEN Rat(2, 10)
    ELSE IF c = "address" THEN Rat(95, 100)
    ELSE IF c = "partial" THEN Rat(6, 10)
    ELSE Rat(2, 10)

PhoneConfidence(vt, c) ==
    IF vt # "str" THEN Rat(2, 10)
    ELSE IF c = "phone" THEN Rat(9, 10)
    ELSE IF c = "digits" THEN Rat(7, 10)
    ELSE Rat(3, 10)

TextPresenceConfidence(c) ==
    IF c.k = "no_text" THEN Zero
    ELSE IF c.k = "exact" THEN Rat(9, 10)
    ELSE IF c.k = "insensitive" THEN Rat(85, 100)
    ELSE IF c.k = "words" THEN RatAdd(Rat(3, 10), RatMul(Rat(c.m, c.w), Rat(4, 10)))
    ELSE Rat(1, 10)

FormatConfidence(path, vt, len) ==
    IF InPath("amount", path) \/ InPath("total", path)
    THEN (IF IsNumber(vt) THEN Rat(8, 10) ELSE Rat(3, 10))
    ELSE IF InPath("quantity", path)
    THEN (IF vt = "nonneg" THEN Rat(8, 10) ELSE Rat(4, 10))
    ELSE IF InPath("date", path)
    THEN (IF vt = "str" /\ len = "long" THEN Rat(7, 10) ELSE Rat(3, 10))
    ELSE Half

RECURSIVE RatSum(_)
RatSum(xs) == IF xs = <<>> THEN Zero ELSE RatAdd(Head(xs), RatSum(Tail(xs)))

\* np.mean
Mean(xs) == RatMul(RatSum(xs), Rat(1, Len(xs)))

When(cond, x) == IF cond THEN <<x>> ELSE <<>>

\* confidence_adjustments, in the order the code appends them.
ConfidenceAdjustments(fld) ==
    LET path == fld.path
        vt == fld.vt
    IN When(InPath("date", path), DateConfidence(vt, fld.date))
       \o When(InPath("amount", path) \/ InPath("total", path) \/ InPath("cost", path),
               AmountConfidence(vt, fld.amount))
       \o When(InPath("number", path), NumberConfidence(vt, fld.number))
       \o When(InPath("name", path), NameConfidence(vt, fld.name))
       \o When(InPath("email", path), EmailConfidence(vt, fld.email))
       \o When(InPath("phone", path), PhoneConfidence(vt, fld.phone))
       \o <<TextPresenceConfidence(fld.presence)>>
       \o <<FormatConfidence(path, vt, fld.length)>>

CalculateHeuristicConfidence(fld) ==
    IF fld.vt \in {"None", "empty"} THEN Zero
    ELSE Mean(ConfidenceAdjustments(fld))

ClampMut(x) == x

\* max(0.0, min(1.0, final_confidence))
Clamp(x) == RatMax(Zero, RatMin(One, x))

CalculateFieldConfidence(fld) ==
    IF fld.vt = "None" THEN Zero
    ELSE LET heuristic == CalculateHeuristicConfidence(fld)
             final == IF fld.model # NoConfidence
                      THEN RatAdd(RatMul(Rat(7, 10), fld.model),
                                  RatMul(Rat(3, 10), heuristic))
                      ELSE heuristic
         IN Clamp(final)

\* The inputs of one call: the sub-check classes are chosen for the
\* sub-checks the path triggers and are "n/a" for the others.
Relevant(cond, classes) == IF cond THEN classes ELSE {NA}

FieldInputs(path, vt) ==
    [path : {path}, vt : {vt}, model : ModelConfidences,
     date : Relevant(InPath("date", path), DateClasses(vt)),
     amount : Relevant(InPath("amount", path) \/ InPath("total", path)
                          \/ InPath("cost", path), AmountClasses(vt)),
     number : Relevant(InPath("number", path), NumberClasses(vt)),
     name : Relevant(InPath("name", path), NameClasses(vt)),
     email : Relevant(InPath("email", path), EmailClasses(vt)),
     phone : Relevant(InPath("phone", path), PhoneClasses(vt)),
     presence : IF vt \in {"None", "empty"}
                THEN {[k |-> "none", m |-> 0, w |-> 0]} ELSE PresenceClasses,
     length : Relevant(InPath("date", path), LengthClasses(vt))]

NoScores == [path \in {} |-> Zero]

(***************************************************************************)
(* ConfidenceScorer.identify_low_confidence_fields                         *)
(***************************************************************************)
MaxFields == 3

FieldNames == <<"date", "total_amount", "vendor.name", "currency", "items.0.total">>

Injective(xs) == \A i, j \in DOMAIN xs : xs[i] = xs[j] => i = j

\* field_confidences.items(): distinct paths in insertion order, each with
\* its score.
ScoreLevels == {Zero, Half, Rat(7, 10), Rat(9, 10)}

FieldConfidences ==
    UNION {{xs \in [1..n -> [path : {FieldNames[i] : i \in 1..MaxFields},
                             score : ScoreLevels]] :
                Injective([i \in 1..n |-> xs[i].path])} : n \in 0..MaxFields}

Thresholds == {LowConfidenceThreshold, Half, One}

IsLowMut(score, th) == RatLe(score, th)

\* confidence < self.low_confidence_threshold
IsLow(score, th) == RatLt(score, th)

\* list.sort(key=lambda x: x[1]): stable, ascending by score.
RECURSIVE InsertByScore(_, _)
InsertByScore(sorted, item) ==
    IF sorted = <<>> THEN <<item>>
    ELSE IF RatLt(item.score, Head(sorted).score) THEN <<item>> \o sorted
    ELSE <<Head(sorted)>> \o InsertByScore(Tail(sorted), item)

RECURSIVE SortByScore(_)
SortByScore(xs) ==
    IF xs = <<>> THEN <<>>
    ELSE InsertByScore(SortByScore(SubSeq(xs, 1, Len(xs) - 1)), xs[Len(xs)])

IdentifyLowConfidenceFields(items, th) ==
    SortByScore(SelectSeq(items, LAMBDA item : IsLow(item.score, th)))

InitConfidence ==
    /\ op \in {"assess_confidence", "calculate_field_confidence",
               "identify_low_confidence_fields"}
    /\ pc = "start"
    /\ ClassifierIdle
    /\ ConcurrentIdle
    /\ docType = None
    /\ requested = 0
    /\ attempt = 0
    /\ results = <<>>
    /\ served = <<>>
    /\ IF op = "assess_confidence"
       THEN data \in Records /\ ScorerIdle
       ELSE IF op = "calculate_field_confidence"
       THEN /\ data = Null
            /\ \E path \in FieldPaths, vt \in ValueTypes :
                  field \in FieldInputs(path, vt)
            /\ confidences = <<>>
            /\ threshold = LowConfidenceThreshold
       ELSE /\ data = Null
            /\ field = [path |-> None]
            /\ confidences \in FieldConfidences
            /\ threshold \in Thresholds
    /\ calls = 0
    /\ raised = FALSE
    /\ CliIdle
    /\ AppIdle
    /\ ValidatorIdle
    /\ result = NoScores

AssessConfidenceOp ==
    /\ op = "assess_confidence"
    /\ pc = "start"
    /\ \E resp \in ConfidenceResponses :
          /\ served' = Append(served, resp)
          /\ result' = AssessConfidence(data, resp)
    /\ calls' = calls + 1
    /\ pc' = "done"
    /\ UNCHANGED <<cliVars, appVars, op, classifierVars, concurrentVars, scorerVars, validatorVars,
                   docType, requested, data, attempt, results, raised>>

FieldConfidenceOp ==
    /\ op = "calculate_field_confidence"
    /\ pc = "start"
    /\ result' = CalculateFieldConfidence(field)
    /\ pc' = "done"
    /\ UNCHANGED <<cliVars, appVars, op, classifierVars, extractorVars, concurrentVars, scorerVars, validatorVars,
                   calls, raised>>

IdentifyLowOp ==
    /\ op = "identify_low_confidence_fields"
    /\ pc = "start"
    /\ result' = IdentifyLowConfidenceFields(confidences, threshold)
    /\ pc' = "done"
    /\ UNCHANGED <<cliVars, appVars, op, classifierVars, extractorVars, concurrentVars, scorerVars, validatorVars,
                   calls, raised>>

NextConfidence == AssessConfidenceOp \/ FieldConfidenceOp \/ IdentifyLowOp

SpecConfidence == InitConfidence /\ [][NextConfidence]_vars

Assessed == op = "assess_confidence" /\ pc = "done"
Scored == op = "calculate_field_confidence" /\ pc = "done"

\* The field paths of all scalar leaves of a value, through mapping keys and
\* sequence indices.
RECURSIVE LeafPaths(_, _)
LeafPaths(obj, prefix) ==
    IF obj.t = "dict"
    THEN UNION {LeafPaths(obj.f[key], JoinPath(prefix, key)) : key \in DOMAIN obj.f}
    ELSE IF obj.t = "list"
    THEN UNION {LeafPaths(obj.items[i], JoinPath(prefix, IndexText(i - 1)))
                    : i \in 1..Len(obj.items)}
    ELSE {prefix}

\* C9: when assess_confidence falls back, the returned mapping has exactly one
\* entry, with score 0.5, for every scalar leaf of the record reachable
\* through mapping keys and sequence indices, keyed by its dot/index path.
C9_DefaultScores ==
    (Assessed /\ FallsBack(served[1])) =>
        /\ DOMAIN result = LeafPaths(data, "")
        /\ \A path \in DOMAIN result : result[path] = Half

InRange(x) == RatLe(Zero, x) /\ RatLe(x, One)

\* C10: every score returned by calculate_field_confidence, and every score in
\* the mapping returned by assess_confidence, lies in [0.0, 1.0]; the field
\* confidence of a null value is 0.0.
C10_ScoresInRange ==
    /\ Scored => (InRange(result) /\ (field.vt = "None" => result = Zero))
    /\ Assessed => \A path \in DOMAIN result : InRange(result[path])

\* A model confidence of 2.0 is clamped to 1.0.
C10_Witness ==
    /\ Scored
    /\ field.model = Rat(2, 1)
    /\ field.vt = "str"
    /\ result = One

Identified == op = "identify_low_confidence_fields" /\ pc = "done"

Elements(xs) == {xs[i] : i \in DOMAIN xs}

\* C11: identify_low_confidence_fields returns exactly the (path, score) pairs
\* whose score is strictly below the threshold, each once, ordered by
\* non-decreasing score.
C11_LowConfidenceFields ==
    Identified =>
        /\ Elements(result) =
               {item \in Elements(confidences) : RatLt(item.score, threshold)}
        /\ Injective(result)
        /\ \A i, j \in DOMAIN result : i < j => RatLe(result[i].score, result[j].score)

\* A score equal to the threshold is left out while lower ones are returned
\* in ascending order.
C11_Witness ==
    /\ Identified
    /\ \E i \in DOMAIN confidences : confidences[i].score = threshold
    /\ Len(result) >= 2
    /\ result[1].score # result[2].score
    /\ confidences[1].score = result[2].score

HeuristicsDone == op = "classify_by_heuristics" /\ pc = "done"

C20_ConsultRule ==
    Classified =>
        IF RatLt(Rat(7, 10), heur.conf) THEN calls = 0
        ELSE extractor => calls = 1

(***************************************************************************)
(* Strings, as the validator's Python string operations treat them         *)
(***************************************************************************)
Char(s, i) == SubSeq(s, i, i)

\* sub in s
Contains(sub, s) ==
    \E i \in 1..(Len(s) - Len(sub) + 1) : SubSeq(s, i, i + Len(sub) - 1) = sub

LowerLetters == "abcdefghijklmnopqrstuvwxyz"
UpperLetters == "ABCDEFGHIJKLMNOPQRSTUVWXYZ"
DecimalDigits == "0123456789"

\* Position of a one-character string in an alphabet, 0 if it is not in it.
IndexIn(c, alphabet) ==
    IF \E i \in 1..Len(alphabet) : Char(alphabet, i) = c
    THEN CHOOSE i \in 1..Len(alphabet) : Char(alphabet, i) = c
    ELSE 0

CharsOf(s) == {Char(s, i) : i \in 1..Len(s)}

\* The character-by-character translation of one alphabet into another.
Translation(from, to) == [c \in CharsOf(from) |-> Char(to, IndexIn(c, from))]

LowerOf == Translation(UpperLetters, LowerLetters)
UpperOf == Translation(LowerLetters, UpperLetters)
DigitOf == [c \in CharsOf(DecimalDigits) |-> IndexIn(c, DecimalDigits) - 1]

RECURSIVE MapChars(_, _)
MapChars(s, map) ==
    IF s = "" THEN ""
    ELSE LET c == Char(s, 1)
         IN (IF c \in DOMAIN map THEN map[c] ELSE c)
                \o MapChars(SubSeq(s, 2, Len(s)), map)

\* s.lower(), s.upper()
ToLower(s) == MapChars(s, LowerOf)
ToUpper(s) == MapChars(s, UpperOf)

\* s.strip() of blanks
RECURSIVE StripLeft(_)
StripLeft(s) ==
    IF s # "" /\ Char(s, 1) = " " THEN StripLeft(SubSeq(s, 2, Len(s))) ELSE s

RECURSIVE StripRight(_)
StripRight(s) ==
    IF s # "" /\ Char(s, Len(s)) = " " THEN StripRight(SubSeq(s, 1, Len(s) - 1)) ELSE s

Strip(s) == StripRight(StripLeft(s))

\* re.sub('[' + chars + ']', '', s)
RECURSIVE RemoveChars(_, _)
RemoveChars(s, chars) ==
    IF s = "" THEN ""
    ELSE (IF Char(s, 1) \in chars THEN "" ELSE Char(s, 1))
             \o RemoveChars(SubSeq(s, 2, Len(s)), chars)

IsDigits(s) == s # "" /\ \A i \in 1..Len(s) : Char(s, i) \in DOMAIN DigitOf

RECURSIVE DigitsValue(_)
DigitsValue(s) ==
    IF s = "" THEN 0
    ELSE 10 * DigitsValue(SubSeq(s, 1, Len(s) - 1)) + DigitOf[Char(s, Len(s))]

RECURSIVE PowerOfTen(_)
PowerOfTen(k) == IF k = 0 THEN 1 ELSE 10 * PowerOfTen(k - 1)

\* str(n) of a natural number
RECURSIVE IntText(_)
IntText(n) ==
    IF n < 10 THEN Char(DecimalDigits, n + 1)
    ELSE IntText(n \div 10) \o Char(DecimalDigits, (n % 10) + 1)

\* f"{x:.2f}"
Fmt2(q) ==
    LET mag == IF q.n < 0 THEN 0 - q.n ELSE q.n
        cents == (2 * 100 * mag + q.d) \div (2 * q.d)
        frac == cents % 100
    IN (IF q.n < 0 /\ cents > 0 THEN "-" ELSE "")
           \o IntText(cents \div 100) \o "."
           \o (IF frac < 10 THEN "0" ELSE "") \o IntText(frac)

\* The position of the first occurrence of a one-character string, 0 if none.
FirstIndex(c, s) ==
    IF \E i \in 1..Len(s) : Char(s, i) = c
    THEN CHOOSE i \in 1..Len(s) : Char(s, i) = c /\ \A j \in 1..(i - 1) : Char(s, j) # c
    ELSE 0

\* The digits before and after the point, as a number.
ParseDigits(whole, frac) ==
    IF /\ (whole = "" \/ IsDigits(whole))
       /\ (frac = "" \/ IsDigits(frac))
       /\ ~(whole = "" /\ frac = "")
    THEN [ok |-> TRUE,
          q |-> Rat(DigitsValue(whole) * PowerOfTen(Len(frac)) + DigitsValue(frac),
                    PowerOfTen(Len(frac)))]
    ELSE [ok |-> FALSE, q |-> Zero]

ParseAround(body, dot) ==
    IF dot = 0 THEN ParseDigits(body, "")
    ELSE ParseDigits(SubSeq(body, 1, dot - 1), SubSeq(body, dot + 1, Len(body)))

ParseUnsigned(body) == ParseAround(body, FirstIndex(".", body))

Negated(parsed) ==
    IF parsed.ok THEN [ok |-> TRUE, q |-> Rat(0 - parsed.q.n, parsed.q.d)] ELSE parsed

ParseSigned(t) ==
    IF t = "" THEN ParseUnsigned(t)
    ELSE IF Char(t, 1) = "-" THEN Negated(ParseUnsigned(SubSeq(t, 2, Len(t))))
    ELSE IF Char(t, 1) = "+" THEN ParseUnsigned(SubSeq(t, 2, Len(t)))
    ELSE ParseUnsigned(t)

\* float(s) for decimal notation: blanks stripped, an optional sign, digits
\* with at most one point; anything else is a ValueError.
ParseFloat(s) == ParseSigned(Strip(s))

SplitAt(s, a, b) ==
    <<SubSeq(s, 1, a - 1), SubSeq(s, a + 1, b - 1), SubSeq(s, b + 1, Len(s))>>

SplitAmong(s, at) ==
    IF Cardinality(at) # 2 THEN <<>>
    ELSE SplitAt(s, CHOOSE i \in at : \A j \in at : i <= j,
                    CHOOSE i \in at : \A j \in at : j <= i)

\* s.split(sep) when it gives exactly three parts, <<>> otherwise.
SplitThree(s, sep) == SplitAmong(s, {i \in 1..Len(s) : Char(s, i) = sep})

IsLeap(y) == (y % 4 = 0 /\ y % 100 # 0) \/ y % 400 = 0

DaysInMonth(y, m) ==
    IF m = 2 THEN (IF IsLeap(y) THEN 29 ELSE 28)
    ELSE IF m \in {4, 6, 9, 11} THEN 30 ELSE 31

\* The date formats, by separator and by the positions of year, month and day.
IsoFormat == [sep |-> "-", y |-> 1, m |-> 2, d |-> 3]

DateFormats ==
    <<IsoFormat,
      [sep |-> "/", y |-> 3, m |-> 1, d |-> 2],
      [sep |-> "/", y |-> 3, m |-> 2, d |-> 1],
      [sep |-> "-", y |-> 3, m |-> 1, d |-> 2],
      [sep |-> "-", y |-> 3, m |-> 2, d |-> 1]>>

NoDate == [ok |-> FALSE, y |-> 0, m |-> 0, d |-> 0]

DateOf(year, month, day) ==
    IF year >= 1 /\ month \in 1..12 /\ day >= 1 /\ day <= DaysInMonth(year, month)
    THEN [ok |-> TRUE, y |-> year, m |-> month, d |-> day]
    ELSE NoDate

DateOfParts(ys, ms, ds) ==
    IF /\ Len(ys) = 4 /\ IsDigits(ys)
       /\ Len(ms) <= 2 /\ IsDigits(ms)
       /\ Len(ds) <= 2 /\ IsDigits(ds)
    THEN DateOf(DigitsValue(ys), DigitsValue(ms), DigitsValue(ds))
    ELSE NoDate

DateOfSplit(parts, fmt) ==
    IF parts = <<>> THEN NoDate
    ELSE DateOfParts(parts[fmt.y], parts[fmt.m], parts[fmt.d])

\* datetime.strptime(s, fmt).date(): %Y is four digits, %m and %d one or two,
\* and the day must exist; anything else is a ValueError.
StrpTime(s, fmt) == DateOfSplit(SplitThree(s, fmt.sep), fmt)

DateBeforeMut(a, b) ==
    \/ a.y < b.y
    \/ (a.y = b.y /\ a.m < b.m)
    \/ (a.y = b.y /\ a.m = b.m /\ a.d <= b.d)

\* a < b on dates
DateBefore(a, b) ==
    \/ a.y < b.y
    \/ (a.y = b.y /\ a.m < b.m)
    \/ (a.y = b.y /\ a.m = b.m /\ a.d < b.d)

(***************************************************************************)
(* DataValidator: per-field-type validators                                *)
(***************************************************************************)
CurrentYear == 2026

\* type(value).__name__
TypeName(v) ==
    IF v.t = "null" THEN "NoneType"
    ELSE IF v.t = "num" THEN (IF v.q.d = 1 THEN "int" ELSE "float")
    ELSE v.t

\* Python truthiness
Truthy(v) ==
    IF v.t = "null" THEN FALSE
    ELSE IF v.t = "str" THEN v.s # ""
    ELSE IF v.t = "num" THEN v.q # Zero
    ELSE IF v.t = "bool" THEN v.b
    ELSE IF v.t = "list" THEN v.items # <<>>
    ELSE DOMAIN v.f # {}

Valid == [ok |-> TRUE, msg |-> ""]
Invalid(msg) == [ok |-> FALSE, msg |-> msg]

\* for fmt in date_formats: the parse by the first format, in order, that
\* parses the string.
RECURSIVE FirstParseFrom(_, _)
FirstOk(parsed, s, i) == IF parsed.ok THEN parsed ELSE FirstParseFrom(s, i + 1)

FirstParseFrom(s, i) ==
    IF i > Len(DateFormats) THEN NoDate
    ELSE FirstOk(StrpTime(s, DateFormats[i]), s, i)

FirstParse(s) == FirstParseFrom(s, 1)

CheckYear(parsed, given) ==
    IF parsed.ok
    THEN (IF parsed.y < 1900 \/ parsed.y > CurrentYear + 10
          THEN Invalid("Date year " \o IntText(parsed.y) \o " seems unreasonable")
          ELSE Valid)
    ELSE Invalid("Invalid date format: " \o given
                     \o ". Expected formats: YYYY-MM-DD, MM/DD/YYYY, etc.")

ValidateDate(value) ==
    IF value.t # "str" THEN Invalid("Date must be a string")
    ELSE IF Strip(value.s) = "" THEN Invalid("Date cannot be empty")
    ELSE CheckYear(FirstParse(value.s), value.s)

CheckSign(amount, given) ==
    IF ~amount.ok THEN Invalid("Invalid amount format: " \o given)
    ELSE IF amount.q.n < 0 THEN Invalid("Amount cannot be negative")
    ELSE Valid

ValidateAmount(value) ==
    IF value.t = "null" THEN Invalid("Amount cannot be null")
    ELSE IF value.t = "num"
    THEN (IF value.q.n < 0 THEN Invalid("Amount cannot be negative") ELSE Valid)
    ELSE IF value.t = "bool" THEN Valid
    ELSE IF value.t = "str"
    THEN CheckSign(ParseFloat(RemoveChars(value.s, {"$", ",", " "})), value.s)
    ELSE Invalid("Amount must be a number, got " \o TypeName(value))

ValidCurrencies == {"USD", "EUR", "GBP", "JPY", "CAD", "AUD", "CHF", "CNY"}

ValidateCurrency(value) ==
    IF value.t # "str" THEN Invalid("Currency must be a string")
    ELSE IF ToUpper(value.s) \in ValidCurrencies THEN Valid
    ELSE Invalid("Unknown currency code: " \o value.s)

\* self.validation_rules[field_type](value), for the field types the
\* document validators use.
ApplyRule(ftype, value) ==
    IF ftype = "date" THEN ValidateDate(value)
    ELSE IF ftype = "amount" THEN ValidateAmount(value)
    ELSE ValidateCurrency(value)

(***************************************************************************)
(* The validation result while it is being built.  `raised` says that an   *)
(* exception is propagating, `exc` holds its text.                         *)
(***************************************************************************)
NewResult ==
    [errors |-> <<>>, warnings |-> <<>>, fv |-> <<>>, raised |-> FALSE, exc |-> ""]

AddError(r, msg) == [r EXCEPT !.errors = Append(@, msg)]
AddWarning(r, msg) == [r EXCEPT !.warnings = Append(@, msg)]
Raise(r, msg) == [r EXCEPT !.raised = TRUE, !.exc = msg]

\* result['field_validations'][field] = entry, in dict insertion order
SetFieldValidation(r, entry) ==
    IF \E i \in DOMAIN r.fv : r.fv[i].field = entry.field
    THEN [r EXCEPT !.fv = [i \in DOMAIN r.fv |->
                              IF r.fv[i].field = entry.field THEN entry ELSE r.fv[i]]]
    ELSE [r EXCEPT !.fv = Append(@, entry)]

\* key in container: "in", "notin", or "TypeError" for a value that is no
\* container.
InTest(key, container) ==
    IF container.t = "dict" THEN (IF key \in DOMAIN container.f THEN "in" ELSE "notin")
    ELSE IF container.t = "list"
    THEN (IF \E i \in DOMAIN container.items : container.items[i] = [t |-> "str", s |-> key]
          THEN "in" ELSE "notin")
    ELSE IF container.t = "str" THEN (IF Contains(key, container.s) THEN "in" ELSE "notin")
    ELSE "TypeError"

NotIterable(v) == "argument of type '" \o TypeName(v) \o "' is not iterable"

\* The TypeError of container[key] for a string key on a list or a string.
BadIndex(v) ==
    IF v.t = "list" THEN "list indices must be integers or slices, not str"
    ELSE "string indices must be integers, not 'str'"

LookupBy(test, key, container) ==
    IF test = "TypeError" THEN [k |-> "raise", msg |-> NotIterable(container)]
    ELSE IF test = "notin" THEN [k |-> "absent"]
    ELSE IF container.t # "dict" THEN [k |-> "raise", msg |-> BadIndex(container)]
    ELSE [k |-> "value", v |-> container.f[key]]

\* The outcome of looking a key up: absent, a value, or a TypeError.
Lookup(key, container) == LookupBy(InTest(key, container), key, container)

IsEmptyStringMut(v) == FALSE

\* data[field] == ""
IsEmptyString(v) == v.t = "str" /\ v.s = ""

\* field not in data or data[field] is None or data[field] == ""
CheckRequired(found, fld, r) ==
    IF found.k = "raise" THEN Raise(r, found.msg)
    ELSE IF found.k = "absent" \/ found.v.t = "null" \/ IsEmptyString(found.v)
    THEN AddError(r, "Required field '" \o fld \o "' is missing or empty")
    ELSE r

RECURSIVE CheckRequiredFrom(_, _, _, _)
CheckRequiredFrom(doc, fields, i, r) ==
    IF i > Len(fields) \/ r.raised THEN r
    ELSE CheckRequiredFrom(doc, fields, i + 1,
                           CheckRequired(Lookup(fields[i], doc), fields[i], r))

CheckRequiredFields(doc, fields, r) == CheckRequiredFrom(doc, fields, 1, r)

NoteVerdict(verdict, noted, fld) ==
    IF verdict.ok THEN noted
    ELSE AddError(noted, "Field '" \o fld \o "': " \o verdict.msg)

ApplyTo(verdict, value, fld, ftype, r) ==
    NoteVerdict(verdict,
                SetFieldValidation(r, [field |-> fld, is_valid |-> verdict.ok,
                                       value |-> value, type |-> ftype]),
                fld)

ValidateFound(found, fld, ftype, r) ==
    IF found.k = "raise" THEN Raise(r, found.msg)
    ELSE IF found.k = "absent" \/ found.v.t = "null" THEN r
    ELSE ApplyTo(ApplyRule(ftype, found.v), found.v, fld, ftype, r)

ValidateFieldType(doc, fld, ftype, r) == ValidateFound(Lookup(fld, doc), fld, ftype, r)

ValidateIfIn(test, doc, fld, ftype, r) ==
    IF test = "TypeError" THEN Raise(r, NotIterable(doc))
    ELSE IF test = "notin" THEN r
    ELSE ValidateFieldType(doc, fld, ftype, r)

\* if field in data: self._validate_field_type(data, field, field_type, result)
ValidateIfPresent(doc, fld, ftype, r) ==
    IF r.raised THEN r ELSE ValidateIfIn(InTest(fld, doc), doc, fld, ftype, r)

RECURSIVE ValidateFieldsFrom(_, _, _, _, _)
ValidateFieldsFrom(doc, fields, i, ftype, r) ==
    IF i > Len(fields) \/ r.raised THEN r
    ELSE ValidateFieldsFrom(doc, fields, i + 1, ftype,
                            ValidateIfPresent(doc, fields[i], ftype, r))

ValidateFields(doc, fields, ftype, r) == ValidateFieldsFrom(doc, fields, 1, ftype, r)

FloatOf(parsed, given) ==
    IF parsed.ok THEN [k |-> "ok", q |-> parsed.q]
    ELSE [k |-> "raise", msg |-> "could not convert string to float: '" \o given \o "'"]

\* float(value): a number, a ValueError or a TypeError.
Float(v) ==
    IF v.t = "num" THEN [k |-> "ok", q |-> v.q]
    ELSE IF v.t = "bool" THEN [k |-> "ok", q |-> IF v.b THEN One ELSE Zero]
    ELSE IF v.t = "str" THEN FloatOf(ParseFloat(v.s), v.s)
    ELSE [k |-> "raise",
          msg |-> "float() argument must be a string or a real number, not '"
                      \o TypeName(v) \o "'"]

RatSub(a, b) == RatAdd(a, Rat(0 - b.n, b.d))
RatAbs(a) == IF a.n < 0 THEN Rat(0 - a.n, a.d) ELSE a

Tolerance == Rat(1, 100)

MismatchMut(expected, actual) == RatLe(Tolerance, RatAbs(RatSub(expected, actual)))

\* abs(expected - actual) > 0.01
Mismatch(expected, actual) == RatLt(Tolerance, RatAbs(RatSub(expected, actual)))

(***************************************************************************)
(* DataValidator: document validators                                      *)
(***************************************************************************)
NotStr(v) == "strptime() argument 1 must be str, not " \o TypeName(v)

CompareDates(invoiceDate, dueDate, r) ==
    IF DateBefore(dueDate, invoiceDate)
    THEN AddError(r, "Due date cannot be before invoice date")
    ELSE r

\* invoice_date = strptime(date); due_date = strptime(due_date); compare.  A
\* ValueError of either parse is passed over, a TypeError propagates.
ParseAndCompare(a, b, r) ==
    IF a.t # "str" THEN Raise(r, NotStr(a))
    ELSE IF ~StrpTime(a.s, IsoFormat).ok THEN r
    ELSE IF b.t # "str" THEN Raise(r, NotStr(b))
    ELSE IF ~StrpTime(b.s, IsoFormat).ok THEN r
    ELSE CompareDates(StrpTime(a.s, IsoFormat), StrpTime(b.s, IsoFormat), r)

\* if 'date' in data and data['date'] and data['due_date']
DueDateOrder(doc, r) ==
    IF r.raised THEN r
    ELSE IF /\ "date" \in DOMAIN doc.f
            /\ Truthy(doc.f["date"])
            /\ Truthy(doc.f["due_date"])
    THEN ParseAndCompare(doc.f["date"], doc.f["due_date"], r)
    ELSE r

\* The due-date block of _validate_invoice: the due date is validated and,
\* when date and due_date are both truthy, the two are parsed as %Y-%m-%d
\* and compared.  The block is entered only for a mapping with the key, the
\* `in` test on anything else having raised or failed before.
CheckDueDate(doc, r) ==
    IF r.raised \/ InTest("due_date", doc) # "in" THEN r
    ELSE DueDateOrder(doc, ValidateFieldType(doc, "due_date", "date", r))

ItemFields == <<"description", "quantity", "unit_price", "total">>
ItemAmounts == {"quantity", "unit_price", "total"}

ItemAmountVerdict(verdict, index, fld, r) ==
    IF verdict.ok THEN r
    ELSE AddError(r, "Item " \o IntText(index) \o ", field '" \o fld \o "': " \o verdict.msg)

\* One iteration of `for field in required_item_fields`.
ItemField(found, index, fld, r) ==
    IF found.k = "raise" THEN Raise(r, found.msg)
    ELSE IF found.k = "absent" \/ found.v.t = "null"
    THEN AddError(r, "Item " \o IntText(index) \o ": missing required field '" \o fld \o "'")
    ELSE IF fld \in ItemAmounts
    THEN ItemAmountVerdict(ValidateAmount(found.v), index, fld, r)
    ELSE r

RECURSIVE ItemFieldsFrom(_, _, _, _)
ItemFieldsFrom(item, index, i, r) ==
    IF i > Len(ItemFields) \/ r.raised THEN r
    ELSE ItemFieldsFrom(item, index, i + 1,
                        ItemField(Lookup(ItemFields[i], item), index, ItemFields[i], r))

IsValue(found) == found.k = "value" /\ found.v.t # "null"

\* field in item and item[field] is not None
Present(fld, item) == IsValue(Lookup(fld, item))

ItemTotalWarning(expected, actual, index, r) ==
    IF Mismatch(expected, actual)
    THEN AddWarning(r, "Item " \o IntText(index) \o ": calculated total ("
                           \o Fmt2(expected) \o ") doesn't match stated total ("
                           \o Fmt2(actual) \o ")")
    ELSE r

\* The try block of _validate_invoice_item: a ValueError or TypeError of a
\* conversion is passed over.
ItemTotalCheck(quantity, price, total, index, r) ==
    IF quantity.k = "raise" \/ price.k = "raise" \/ total.k = "raise" THEN r
    ELSE ItemTotalWarning(RatMul(quantity.q, price.q), total.q, index, r)

ItemTotal(item, index, r) ==
    IF r.raised THEN r
    ELSE IF \A fld \in ItemAmounts : Present(fld, item)
    THEN ItemTotalCheck(Float(item.f["quantity"]), Float(item.f["unit_price"]),
                        Float(item.f["total"]), index, r)
    ELSE r

ValidateInvoiceItem(item, index, r) ==
    ItemTotal(item, index, ItemFieldsFrom(item, index, 1, r))

RECURSIVE InvoiceItemsFrom(_, _, _)
InvoiceItemsFrom(items, i, r) ==
    IF i > Len(items) \/ r.raised THEN r
    ELSE InvoiceItemsFrom(items, i + 1, ValidateInvoiceItem(items[i], i - 1, r))

IsList(found) == found.k = "value" /\ found.v.t = "list"

InvoiceItemsOf(found, r) ==
    IF found.k = "raise" THEN Raise(r, found.msg)
    ELSE IF IsList(found) THEN InvoiceItemsFrom(found.v.items, 1, r)
    ELSE r

\* if 'items' in data and isinstance(data['items'], list): ...
ValidateInvoiceItems(doc, r) ==
    IF r.raised THEN r ELSE InvoiceItemsOf(Lookup("items", doc), r)

\* calculated_subtotal: the sum of float(item['total']) over the items that
\* have a total, or the exception that the loop raises.
RECURSIVE SumItemTotals(_, _, _)
AddTotal(total, items, i, acc) ==
    IF total.k = "raise" THEN total
    ELSE SumItemTotals(items, i + 1, RatAdd(acc, total.q))

AddItemTotal(found, items, i, acc) ==
    IF found.k = "raise" THEN found
    ELSE IF found.k = "absent" \/ found.v.t = "null" THEN SumItemTotals(items, i + 1, acc)
    ELSE AddTotal(Float(found.v), items, i, acc)

SumItemTotals(items, i, acc) ==
    IF i > Len(items) THEN [k |-> "ok", q |-> acc]
    ELSE AddItemTotal(Lookup("total", items[i]), items, i, acc)

\* The handler of a calculation block: except (ValueError, TypeError) as e.
CaughtAsWarning(r, prefix) ==
    IF r.raised
    THEN AddWarning([r EXCEPT !.raised = FALSE, !.exc = ""], prefix \o r.exc)
    ELSE r

SubtotalWarning(calculated, stated, r) ==
    IF stated.k = "raise" THEN Raise(r, stated.msg)
    ELSE IF Mismatch(calculated, stated.q)
    THEN AddWarning(r, "Calculated subtotal (" \o Fmt2(calculated)
                           \o ") doesn't match stated subtotal ("
                           \o Fmt2(stated.q) \o ")")
    ELSE r

SubtotalCheck(doc, calculated, r) ==
    IF Present("subtotal", doc)
    THEN SubtotalWarning(calculated, Float(doc.f["subtotal"]), r)
    ELSE r

TotalWarning(expected, actual, r) ==
    IF Mismatch(expected, actual)
    THEN AddWarning(r, "Calculated total (" \o Fmt2(expected)
                           \o ") doesn't match stated total (" \o Fmt2(actual) \o ")")
    ELSE r

TotalOf(subtotal, tax, total, r) ==
    IF subtotal.k = "raise" THEN Raise(r, subtotal.msg)
    ELSE IF tax.k = "raise" THEN Raise(r, tax.msg)
    ELSE IF total.k = "raise" THEN Raise(r, total.msg)
    ELSE TotalWarning(RatAdd(subtotal.q, tax.q), total.q, r)

TotalCheck(doc, r) ==
    IF r.raised THEN r
    ELSE IF \A fld \in {"subtotal", "tax_amount", "total_amount"} : Present(fld, doc)
    THEN TotalOf(Float(doc.f["subtotal"]), Float(doc.f["tax_amount"]),
                 Float(doc.f["total_amount"]), r)
    ELSE r

TotalsFrom(sum, doc, r) ==
    IF sum.k = "raise" THEN Raise(r, sum.msg)
    ELSE TotalCheck(doc, SubtotalCheck(doc, sum.q, r))

\* Both checks sit inside `if 'items' in data and isinstance(data['items'], list)`.
TotalsOf(found, doc, r) ==
    IF found.k = "raise" THEN Raise(r, found.msg)
    ELSE IF IsList(found) THEN TotalsFrom(SumItemTotals(found.v.items, 1, Zero), doc, r)
    ELSE r

ValidateInvoiceTotals(doc, r) ==
    IF r.raised THEN r
    ELSE CaughtAsWarning(TotalsOf(Lookup("items", doc), doc, r),
                         "Could not validate total calculations: ")

InvoiceRequired == <<"invoice_number", "date", "vendor", "total_amount">>
InvoiceAmounts == <<"total_amount", "subtotal", "tax_amount">>

ValidateInvoice(doc, r) ==
    LET required == CheckRequiredFields(doc, InvoiceRequired, r)
        dated == ValidateIfPresent(doc, "date", "date", required)
        due == CheckDueDate(doc, dated)
        amounts == ValidateFields(doc, InvoiceAmounts, "amount", due)
        items == ValidateInvoiceItems(doc, amounts)
    IN ValidateInvoiceTotals(doc, items)

BillRequired == <<"bill_number", "statement_date", "service_provider", "total_amount_due">>
BillDates == <<"statement_date", "due_date">>
BillAmounts ==
    <<"total_amount_due", "previous_balance", "current_charges", "payments",
      "minimum_payment">>

TotalDueWarning(expected, stated, r) ==
    IF Mismatch(expected, stated)
    THEN AddWarning(r, "Calculated total due (" \o Fmt2(expected)
                           \o ") doesn't match stated total (" \o Fmt2(stated) \o ")")
    ELSE r

TotalDueOf(previous, current, payments, stated, r) ==
    IF previous.k = "raise" THEN Raise(r, previous.msg)
    ELSE IF current.k = "raise" THEN Raise(r, current.msg)
    ELSE IF payments.k = "raise" THEN Raise(r, payments.msg)
    ELSE IF stated.k = "raise" THEN Raise(r, stated.msg)
    ELSE TotalDueWarning(RatSub(RatAdd(previous.q, current.q), payments.q), stated.q, r)

\* float(data.get('payments', 0))
PaymentsOf(doc) ==
    IF "payments" \in DOMAIN doc.f THEN Float(doc.f["payments"])
    ELSE [k |-> "ok", q |-> Zero]

TotalDueCheck(doc, r) ==
    IF \A fld \in {"previous_balance", "current_charges", "total_amount_due"} :
           Present(fld, doc)
    THEN TotalDueOf(Float(doc.f["previous_balance"]), Float(doc.f["current_charges"]),
                    PaymentsOf(doc), Float(doc.f["total_amount_due"]), r)
    ELSE r

ValidateBillCalculations(doc, r) ==
    IF r.raised THEN r
    ELSE CaughtAsWarning(TotalDueCheck(doc, r), "Could not validate bill calculations: ")

ValidateBill(doc, r) ==
    LET required == CheckRequiredFields(doc, BillRequired, r)
        dated == ValidateFields(doc, BillDates, "date", required)
        amounts == ValidateFields(doc, BillAmounts, "amount", dated)
    IN ValidateBillCalculations(doc, amounts)

MedicationFields == <<"name", "strength", "quantity", "directions">>

\* field not in medication or not medication[field]
MedicationField(found, index, fld, r) ==
    IF found.k = "raise" THEN Raise(r, found.msg)
    ELSE IF found.k = "absent" \/ ~Truthy(found.v)
    THEN AddError(r, "Medication " \o IntText(index)
                         \o ": missing required field '" \o fld \o "'")
    ELSE r

RECURSIVE MedicationFieldsFrom(_, _, _, _)
MedicationFieldsFrom(medication, index, i, r) ==
    IF i > Len(MedicationFields) \/ r.raised THEN r
    ELSE MedicationFieldsFrom(medication, index, i + 1,
             MedicationField(Lookup(MedicationFields[i], medication), index,
                             MedicationFields[i], r))

ValidateMedication(medication, index, r) == MedicationFieldsFrom(medication, index, 1, r)

RECURSIVE MedicationsFrom(_, _, _)
MedicationsFrom(medications, i, r) ==
    IF i > Len(medications) \/ r.raised THEN r
    ELSE MedicationsFrom(medications, i + 1, ValidateMedication(medications[i], i - 1, r))

MedicationsOf(found, r) ==
    IF found.k = "raise" THEN Raise(r, found.msg)
    ELSE IF IsList(found)
    THEN (IF found.v.items = <<>>
          THEN AddError(r, "At least one medication is required")
          ELSE MedicationsFrom(found.v.items, 1, r))
    ELSE r

ValidateMedications(doc, r) ==
    IF r.raised THEN r ELSE MedicationsOf(Lookup("medications", doc), r)

PrescriptionRequired ==
    <<"prescription_number", "date_prescribed", "doctor", "patient", "medications">>
PrescriptionDates == <<"date_prescribed", "date_filled">>
PrescriptionCosts == <<"total_cost", "insurance_covered", "patient_pay">>

ValidatePrescription(doc, r) ==
    LET required == CheckRequiredFields(doc, PrescriptionRequired, r)
        dated == ValidateFields(doc, PrescriptionDates, "date", required)
        medications == ValidateMedications(doc, dated)
    IN ValidateFields(doc, PrescriptionCosts, "amount", medications)

ValidateCommonFields(doc, r) == ValidateIfPresent(doc, "currency", "currency", r)

IsValidMut(r) == r.errors = <<>> /\ r.warnings = <<>>

\* len(validation_result['errors']) == 0
IsValid(r) == r.errors = <<>>

Returned(is_valid, r) ==
    [is_valid |-> is_valid, errors |-> r.errors, warnings |-> r.warnings,
     field_validations |-> r.fv]

CatchValidationMut(r) ==
    [raised |-> r.raised, value |-> Returned(IsValid(r), r)]

\* The try block's end and its handler: validity is set from the errors, or
\* the exception is turned into an error and is_valid set to False.
CatchValidation(r) ==
    IF r.raised
    THEN [raised |-> FALSE,
          value |-> Returned(FALSE, AddError(r, "Validation error: " \o r.exc))]
    ELSE [raised |-> FALSE, value |-> Returned(IsValid(r), r)]

ValidateDocument(doc, dt) ==
    LET typed == IF dt = "invoice" THEN ValidateInvoice(doc, NewResult)
                 ELSE IF dt = "bill" THEN ValidateBill(doc, NewResult)
                 ELSE IF dt = "prescription" THEN ValidatePrescription(doc, NewResult)
                 ELSE NewResult
    IN CatchValidation(ValidateCommonFields(doc, typed))

(***************************************************************************)
(* DataValidator.suggest_corrections                                       *)
(***************************************************************************)
\* The length of the longest prefix of s made of digits.
RECURSIVE DigitPrefix(_)
DigitPrefix(s) ==
    IF s # "" /\ Char(s, 1) \in DOMAIN DigitOf
    THEN 1 + DigitPrefix(SubSeq(s, 2, Len(s)))
    ELSE 0

Rest(s, k) == SubSeq(s, k + 1, Len(s))

\* re.match(r'\d{1,2}/\d{1,2}/\d{4}', s): a prefix match.  After one or two
\* digits the next character must be the slash.
SlashGroup(s) ==
    IF DigitPrefix(s) \in {1, 2} /\ DigitPrefix(s) < Len(s)
           /\ Char(s, DigitPrefix(s) + 1) = "/"
    THEN DigitPrefix(s) + 1
    ELSE 0

MatchesSlashDate(s) ==
    /\ SlashGroup(s) # 0
    /\ SlashGroup(Rest(s, SlashGroup(s))) # 0
    /\ DigitPrefix(Rest(Rest(s, SlashGroup(s)), SlashGroup(Rest(s, SlashGroup(s))))) >= 4

\* s.zfill(2)
ZFill2(s) == IF Len(s) < 2 THEN (IF Len(s) = 0 THEN "00" ELSE "0" \o s) ELSE s

DateFormatHint == "Use YYYY-MM-DD format (e.g., 2024-03-15)"
AmountFormatHint == "Use numeric format (e.g., 123.45)"

\* _suggest_date_correction: a text, or the TypeError of re.match on a value
\* that is no string.
SuggestDateCorrection(value) ==
    IF value.t # "str"
    THEN [k |-> "raise", msg |-> "expected string or bytes-like object"]
    ELSE IF MatchesSlashDate(value.s) /\ SplitThree(value.s, "/") # <<>>
    THEN LET parts == SplitThree(value.s, "/")
         IN [k |-> "ok",
             s |-> "Try format: " \o parts[3] \o "-" \o ZFill2(parts[1])
                       \o "-" \o ZFill2(parts[2])]
    ELSE [k |-> "ok", s |-> DateFormatHint]

\* The decimal digits of the fraction r/d, without trailing zeros.
RECURSIVE FractionDigits(_, _)
FractionDigits(r, d) ==
    IF r = 0 THEN ""
    ELSE IntText((10 * r) \div d) \o FractionDigits((10 * r) % d, d)

\* str(x) of a non-negative float with a finite decimal expansion
FloatText(q) ==
    IntText(q.n \div q.d) \o "."
        \o (IF q.n % q.d = 0 THEN "0" ELSE FractionDigits(q.n % q.d, q.d))

\* re.sub(r'[^\d\.\-]', '', s)
RECURSIVE KeepNumeric(_)
KeepNumeric(s) ==
    IF s = "" THEN ""
    ELSE (IF Char(s, 1) \in DOMAIN DigitOf \cup {".", "-"} THEN Char(s, 1) ELSE "")
             \o KeepNumeric(SubSeq(s, 2, Len(s)))

SuggestAmountCorrection(value) ==
    IF value.t = "str" /\ ParseFloat(KeepNumeric(value.s)).ok
    THEN LET amount == ParseFloat(KeepNumeric(value.s)).q
         IN IF amount.n < 0 THEN "Use positive value: " \o FloatText(RatAbs(amount))
            ELSE "Use numeric format: " \o FloatText(amount)
    ELSE AmountFormatHint

FormatHint == "Check date formats - ensure they are in YYYY-MM-DD format"
SignHint == "Ensure all monetary amounts are positive values"
CompletenessHint == "Review the document for missing required information"
NoSuggestionHint == "Unable to generate specific suggestions due to an error"

Hint(cond, hint) == IF cond THEN <<hint>> ELSE <<>>

\* The general suggestions one error string gives rise to.
HintsFor(error) ==
    LET low == ToLower(error)
    IN Hint(Contains("date", low) /\ Contains("format", low), FormatHint)
       \o Hint(Contains("amount", low) /\ Contains("negative", low), SignHint)
       \o Hint(Contains("missing", low) \/ Contains("required", low), CompletenessHint)

RECURSIVE GeneralSuggestions(_)
GeneralSuggestions(errors) ==
    IF errors = <<>> THEN <<>>
    ELSE HintsFor(Head(errors)) \o GeneralSuggestions(Tail(errors))

\* The loop over field_validations: the corrections made so far, and whether
\* an exception ended the loop.
RECURSIVE FieldCorrectionsFrom(_, _, _)
FieldCorrectionsFrom(fv, i, sofar) ==
    IF i > Len(fv) THEN [raised |-> FALSE, corrections |-> sofar]
    ELSE IF fv[i].is_valid THEN FieldCorrectionsFrom(fv, i + 1, sofar)
    ELSE IF fv[i].type = "date"
    THEN (IF SuggestDateCorrection(fv[i].value).k = "raise"
          THEN [raised |-> TRUE, corrections |-> sofar]
          ELSE FieldCorrectionsFrom(fv, i + 1,
                   Append(sofar, [field |-> fv[i].field,
                                  correction |-> SuggestDateCorrection(fv[i].value).s])))
    ELSE IF fv[i].type = "amount"
    THEN FieldCorrectionsFrom(fv, i + 1,
             Append(sofar, [field |-> fv[i].field,
                            correction |-> SuggestAmountCorrection(fv[i].value)]))
    ELSE FieldCorrectionsFrom(fv, i + 1, sofar)

SuggestCorrections(doc, validated) ==
    LET general == GeneralSuggestions(validated.errors)
        looped == FieldCorrectionsFrom(validated.field_validations, 1, <<>>)
    IN [field_corrections |-> looped.corrections,
        general_suggestions |->
            IF looped.raised THEN Append(general, NoSuggestionHint) ELSE general]

(***************************************************************************)
(* The records given to the validator: a well-formed record of each type   *)
(* with some of its fields replaced by other values or removed.            *)
(***************************************************************************)
MaxEdits == 2

Absent == [t |-> "absent"]

Whole(n) == Num(Rat(n, 1))
Cents(n) == Num(Rat(n, 100))

Item(quantity, price, total) ==
    Dict([description |-> Str("Widget"), quantity |-> quantity, unit_price |-> price,
          total |-> total])

GoodItem == Item(Whole(10), Whole(150), Whole(1500))

Identifiers == <<Str("A-001"), Absent, Null, Str(""), Whole(12)>>

Parties == <<Dict([name |-> Str("ACME")]), Absent, Null, Str(""), Str("ACME")>>

Currencies == <<Str("USD"), Absent, Null, Str("usd"), Str("XYZ"), Whole(1)>>

Dates ==
    <<Str("2024-03-15"), Absent, Null, Str(""), Str(" "), Str("03/20/2024"),
      Str("2024-13-45"), Str("13/45/2024"), Str("1800-01-01"), Whole(20240315)>>

InvoiceOptions ==
    [invoice_number |-> Identifiers,
     date |-> Dates,
     due_date |-> <<Str("2024-04-14"), Absent, Null, Str(""), Str("2024-03-15"),
                    Str("2024-03-01"), Str("03/01/2024"), Str("soon"), Whole(20240414)>>,
     vendor |-> Parties,
     total_amount |-> <<Whole(1650), Absent, Null, Str(""), Whole(-5), Whole(1550),
                        Str("$1,650.00"), Str("-$5"), Str("abc"), List(<<>>)>>,
     subtotal |-> <<Whole(1500), Absent, Null, Whole(1400), Str("1500"), Str("abc")>>,
     tax_amount |-> <<Whole(150), Absent, Null, Whole(100), Str("n/a")>>,
     items |-> <<List(<<GoodItem>>), Absent, Null, List(<<>>),
                 List(<<Item(Whole(10), Whole(150), Whole(1400))>>),
                 List(<<Item(Whole(10), Whole(150), Cents(150001))>>),
                 List(<<Item(Whole(10), Whole(150), Cents(150002))>>),
                 List(<<Item(Str("10"), Str("150.0"), Str("1500"))>>),
                 List(<<Item(Whole(10), Whole(150), Str("abc"))>>),
                 List(<<Item(Whole(10), Whole(150), Null)>>),
                 List(<<Item(Whole(-10), Whole(150), Whole(-1500))>>),
                 List(<<Dict([description |-> Str("Widget")])>>),
                 List(<<Item(Whole(5), Whole(150), Whole(750)), Item(Whole(5), Whole(150), Whole(750))>>),
                 List(<<Str("total")>>),
                 List(<<Null>>)>>,
     currency |-> Currencies]

BillOptions ==
    [bill_number |-> Identifiers,
     statement_date |-> Dates,
     service_provider |-> Parties,
     total_amount_due |-> <<Whole(120), Absent, Null, Str(""), Whole(-5), Whole(130),
                            Str("abc")>>,
     due_date |-> <<Str("2024-04-14"), Absent, Str("soon"), Whole(20240414)>>,
     previous_balance |-> <<Whole(20), Absent, Null, Whole(30), Str("abc")>>,
     current_charges |-> <<Whole(110), Absent, Whole(100), List(<<>>)>>,
     payments |-> <<Whole(10), Absent, Null, Whole(0), Str("abc")>>,
     minimum_payment |-> <<Whole(25), Absent, Whole(-1)>>,
     currency |-> Currencies]

Medication(name, quantity) ==
    Dict([name |-> name, strength |-> Str("500mg"), quantity |-> quantity,
          directions |-> Str("twice daily")])

PrescriptionOptions ==
    [prescription_number |-> Identifiers,
     date_prescribed |-> Dates,
     doctor |-> Parties,
     patient |-> Parties,
     medications |-> <<List(<<Medication(Str("Amoxicillin"), Whole(30))>>), Absent, Null,
                       Str(""), List(<<>>),
                       List(<<Medication(Str(""), Whole(30))>>),
                       List(<<Medication(Str("Amoxicillin"), Whole(0))>>),
                       List(<<Dict([name |-> Str("Amoxicillin")])>>),
                       List(<<Str("Amoxicillin")>>),
                       List(<<Null>>)>>,
     date_filled |-> <<Str("2024-03-16"), Absent, Str("soon"), Whole(20240316)>>,
     total_cost |-> <<Whole(40), Absent, Whole(-40), Str("abc")>>,
     currency |-> Currencies]

OptionsOf(dt) ==
    IF dt = "bill" THEN BillOptions
    ELSE IF dt = "prescription" THEN PrescriptionOptions
    ELSE InvoiceOptions

MostOptions(options) ==
    CHOOSE n \in {Len(options[fld]) : fld \in DOMAIN options} :
        \A fld \in DOMAIN options : Len(options[fld]) <= n

\* The choices of another option for at most MaxEdits fields.
Edits(options) ==
    UNION {{e \in [changed -> 2..MostOptions(options)] :
                \A fld \in changed : e[fld] <= Len(options[fld])}
               : changed \in {c \in SUBSET DOMAIN options : Cardinality(c) <= MaxEdits}}

Edited(options, e) ==
    LET choice == [fld \in DOMAIN options |->
                      IF fld \in DOMAIN e THEN options[fld][e[fld]] ELSE options[fld][1]]
    IN Dict([fld \in {x \in DOMAIN options : choice[x] # Absent} |-> choice[fld]])

WellFormed(dt) == Edited(OptionsOf(dt), <<>>)

\* Values that are no mapping.
OtherRecords == {Null, List(<<>>), Str("due_date"), Whole(5)}

ValidatedTypes == ValidTypes \cup {"receipt"}

\* Items handed to _validate_invoice_item on its own.
Quantities == {Whole(10), Whole(0), Whole(-10), Str("10"), Str("ten"), Null, Absent}

Prices == {Whole(150), Cents(15025), Str("150.0"), Null, List(<<>>)}

Totals ==
    {Whole(1500), Whole(1400), Cents(150001), Cents(150002), Cents(149999), Cents(149998),
     Cents(150250), Whole(0), Whole(-1500), Str("1500"), Str("abc"), Null, Absent}

Items ==
    {LET choice == [quantity |-> q, unit_price |-> u, total |-> t]
     IN Dict([fld \in {"description"} \cup {x \in ItemAmounts : choice[x] # Absent} |->
                  IF fld = "description" THEN Str("Widget") ELSE choice[fld]])
         : q \in Quantities, u \in Prices, t \in Totals}

InitValidate ==
    /\ op \in {"validate_document", "validate_invoice_item"}
    /\ pc = "start"
    /\ ClassifierIdle
    /\ ConcurrentIdle
    /\ ScorerIdle
    /\ requested = 0
    /\ attempt = 0
    /\ results = <<>>
    /\ served = <<>>
    /\ IF op = "validate_document"
       THEN /\ docType \in ValidatedTypes
            /\ \/ \E e \in Edits(OptionsOf(docType)) : data = Edited(OptionsOf(docType), e)
               \/ data \in OtherRecords
       ELSE /\ docType = "invoice"
            /\ data \in Items
    /\ calls = 0
    /\ raised = FALSE
    /\ CliIdle
    /\ AppIdle
    /\ validation = NoValidation
    /\ result = NoValidation

\* DataValidator.validate_document
ValidateDocumentOp ==
    /\ op = "validate_document"
    /\ pc = "start"
    /\ LET outcome == ValidateDocument(data, docType)
       IN /\ raised' = outcome.raised
          /\ validation' = outcome.value
          /\ result' = outcome.value
    /\ pc' = "validated"
    /\ UNCHANGED <<cliVars, appVars, op, classifierVars, extractorVars, concurrentVars, scorerVars, calls>>

\* DataValidator.suggest_corrections, on the result of validate_document
SuggestCorrectionsOp ==
    /\ op = "validate_document"
    /\ pc = "validated"
    /\ ~raised
    /\ result' = SuggestCorrections(data, validation)
    /\ pc' = "suggested"
    /\ UNCHANGED <<cliVars, appVars, op, classifierVars, extractorVars, concurrentVars, scorerVars,
                   validatorVars, calls, raised>>

\* DataValidator._validate_invoice_item, on a fresh result
ValidateInvoiceItemOp ==
    /\ op = "validate_invoice_item"
    /\ pc = "start"
    /\ LET r == ValidateInvoiceItem(data, 0, NewResult)
       IN /\ raised' = r.raised
          /\ validation' = Returned(IsValid(r), r)
          /\ result' = Returned(IsValid(r), r)
    /\ pc' = "done"
    /\ UNCHANGED <<cliVars, appVars, op, classifierVars, extractorVars, concurrentVars, scorerVars, calls>>

NextValidate == ValidateDocumentOp \/ SuggestCorrectionsOp \/ ValidateInvoiceItemOp

SpecValidate == InitValidate /\ [][NextValidate]_vars

Validated == op = "validate_document" /\ pc \in {"validated", "suggested"}

IsRecord == data.t = "dict"

Has(fld) == fld \in DOMAIN data.f

Among(msgs, msg) == \E i \in DOMAIN msgs : msgs[i] = msg

Mentions(msgs, part) == \E i \in DOMAIN msgs : Contains(part, msgs[i])

\* C12: in every result of validate_document, also when an internal check
\* raised, is_valid is true iff the errors list is empty; warnings do not
\* change is_valid.
C12_ValidIffNoErrors ==
    Validated => (validation.is_valid <=> validation.errors = <<>>)

\* A result with warnings that is valid.
C12_Witness ==
    /\ Validated
    /\ validation.warnings # <<>>
    /\ validation.is_valid

RequiredOf(dt) ==
    IF dt = "invoice" THEN {"invoice_number", "date", "vendor", "total_amount"}
    ELSE IF dt = "bill"
    THEN {"bill_number", "statement_date", "service_provider", "total_amount_due"}
    ELSE {"prescription_number", "date_prescribed", "doctor", "patient", "medications"}

LacksField(fld) == ~Has(fld) \/ data.f[fld] = Null \/ data.f[fld] = Str("")

\* C13: for each document type and each of its required fields, a record in
\* which that field is absent, null or the empty string yields is_valid=false
\* and an error string containing the field's name, whatever the other fields
\* hold.
C13_RequiredFields ==
    (Validated /\ IsRecord /\ docType \in ValidTypes) =>
        \A fld \in RequiredOf(docType) :
            LacksField(fld) =>
                /\ ~validation.is_valid
                /\ Mentions(validation.errors, fld)

\* A required field holds the empty string while another field holds a value
\* that makes a later check raise.
C13_Witness ==
    /\ Validated
    /\ IsRecord
    /\ docType = "invoice"
    /\ Has("vendor") /\ data.f["vendor"] = Str("")
    /\ Mentions(validation.errors, "Validation error")
    /\ Mentions(validation.errors, "vendor")

DayNumber(parsed) == parsed.y * 10000 + parsed.m * 100 + parsed.d

\* A string in one of the five date formats with a year from 1900 to ten
\* years ahead.
WellFormedDate(v) ==
    /\ v.t = "str"
    /\ FirstParse(v.s).ok
    /\ FirstParse(v.s).y >= 1900
    /\ FirstParse(v.s).y <= CurrentYear + 10

GoodAmount(v) == v.t = "num" /\ v.q.n >= 0

CompleteItem(item) ==
    /\ item.t = "dict"
    /\ {"description", "quantity", "unit_price", "total"} \subseteq DOMAIN item.f
    /\ item.f["description"].t = "str"
    /\ \A fld \in {"quantity", "unit_price", "total"} : GoodAmount(item.f[fld])

OptionalAll(fields, P(_)) == \A fld \in fields : Has(fld) => P(data.f[fld])

ConsistentInvoice ==
    /\ IsRecord
    /\ \A fld \in RequiredOf("invoice") : ~LacksField(fld)
    /\ OptionalAll({"date", "due_date"}, WellFormedDate)
    /\ Has("due_date") =>
           DayNumber(FirstParse(data.f["due_date"].s)) >= DayNumber(FirstParse(data.f["date"].s))
    /\ OptionalAll({"total_amount", "subtotal", "tax_amount"}, GoodAmount)
    /\ Has("items") =>
           /\ data.f["items"].t = "list"
           /\ \A i \in DOMAIN data.f["items"].items : CompleteItem(data.f["items"].items[i])
    /\ Has("currency") => (data.f["currency"].t = "str" /\ data.f["currency"].s \in ValidCurrencies)

ConsistentBill ==
    /\ IsRecord
    /\ \A fld \in RequiredOf("bill") : ~LacksField(fld)
    /\ OptionalAll({"statement_date", "due_date"}, WellFormedDate)
    /\ OptionalAll({"total_amount_due", "previous_balance", "current_charges", "payments",
                    "minimum_payment"}, GoodAmount)
    /\ Has("currency") => (data.f["currency"].t = "str" /\ data.f["currency"].s \in ValidCurrencies)

\* C14: validate_document on an invoice (a bill) that has all required
\* fields, well-formed dates with due_date not before date, non-negative
\* numeric amounts, complete items and a known currency returns is_valid=true
\* and errors=[].
C14_ValidDocument ==
    Validated =>
        /\ (docType = "invoice" /\ ConsistentInvoice) =>
               (validation.is_valid /\ validation.errors = <<>>)
        /\ (docType = "bill" /\ ConsistentBill) =>
               (validation.is_valid /\ validation.errors = <<>>)

\* An invoice that is due on its own date is valid.
C14_Witness ==
    /\ Validated
    /\ docType = "invoice"
    /\ ConsistentInvoice
    /\ Has("due_date") /\ data.f["due_date"] = data.f["date"]
    /\ validation.is_valid

NumericItem(item) ==
    /\ item.t = "dict"
    /\ \A fld \in {"quantity", "unit_price", "total"} :
           fld \in DOMAIN item.f /\ item.f[fld].t = "num"

Calculated(item) == RatMul(item.f["quantity"].q, item.f["unit_price"].q)

Differs(item) ==
    RatLt(Rat(1, 100), RatAbs(RatSub(Calculated(item), item.f["total"].q)))

MismatchText(item, index) ==
    "Item " \o IntText(index) \o ": calculated total (" \o Fmt2(Calculated(item))
        \o ") doesn't match stated total (" \o Fmt2(item.f["total"].q) \o ")"

ItemValidated == op = "validate_invoice_item" /\ pc = "done"

Aborted == Mentions(validation.errors, "Validation error: ")

\* C15: for an invoice item whose quantity, unit_price and total are numeric,
\* validation adds the warning stating calculated versus stated total iff
\* |quantity*unit_price - total| > 0.01, and adds no error for the mismatch:
\* the only errors are those of negative amounts, and an invoice that is
\* otherwise well-formed stays valid.
C15_ItemMismatchWarns ==
    /\ (ItemValidated /\ NumericItem(data)) =>
           /\ validation.warnings =
                  (IF Differs(data) THEN <<MismatchText(data, 0)>> ELSE <<>>)
           /\ \A i \in DOMAIN validation.errors :
                  Contains("Amount cannot be negative", validation.errors[i])
           /\ (\A fld \in {"quantity", "unit_price", "total"} : data.f[fld].q.n >= 0) =>
                  validation.is_valid
    /\ (Validated /\ docType = "invoice" /\ IsRecord /\ ~Aborted
            /\ Has("items") /\ data.f["items"].t = "list") =>
           \A i \in DOMAIN data.f["items"].items :
               LET item == data.f["items"].items[i]
               IN NumericItem(item) =>
                      /\ Among(validation.warnings, MismatchText(item, i - 1)) <=> Differs(item)
                      /\ (ConsistentInvoice => validation.is_valid)

\* The item {quantity: 10, unit_price: 150, total: 1400} of an otherwise
\* well-formed invoice: the warning names 1500.00 and 1400.00, and the
\* invoice is valid.
C15_Witness ==
    /\ Validated
    /\ docType = "invoice"
    /\ Among(validation.warnings,
             "Item 0: calculated total (1500.00) doesn't match stated total (1400.00)")
    /\ validation.is_valid

NumericField(fld) == Has(fld) /\ data.f[fld].t = "num"

\* C16: for every invoice whose subtotal, tax_amount and total_amount are
\* numeric with |subtotal + tax_amount - total_amount| > 0.01,
\* validate_document produces a warning about the total mismatch.  (Checked
\* on the invoices that validate without any error.)
C16_TotalMismatchWarned ==
    (Validated /\ docType = "invoice" /\ IsRecord /\ validation.is_valid
         /\ NumericField("subtotal") /\ NumericField("tax_amount")
         /\ NumericField("total_amount")
         /\ RatLt(Rat(1, 100),
                  RatAbs(RatSub(RatAdd(data.f["subtotal"].q, data.f["tax_amount"].q),
                                data.f["total_amount"].q)))) =>
        Mentions(validation.warnings, "Calculated total (")

\* C17: an invoice whose date and due_date both pass the date validator and
\* whose due_date is earlier than its date always gets the error that the
\* due date cannot be before the invoice date.
C17_DueDateOrder ==
    (Validated /\ docType = "invoice" /\ IsRecord
         /\ Has("date") /\ Has("due_date")
         /\ WellFormedDate(data.f["date"]) /\ WellFormedDate(data.f["due_date"])
         /\ DayNumber(FirstParse(data.f["due_date"].s))
                < DayNumber(FirstParse(data.f["date"].s))) =>
        Among(validation.errors, "Due date cannot be before invoice date")

(***************************************************************************)
(* The public operations together: each behaviour is one operation of the  *)
(* extractor, the scorer or the validator on one input.                    *)
(***************************************************************************)
InitPipeline == InitExtract \/ InitConfidence \/ InitValidate

NextPipeline == NextExtract \/ NextConfidence \/ NextValidate

SpecPipeline == InitPipeline /\ [][NextPipeline]_vars

PublicOperations ==
    {"extract_structured_data", "self_consistency_extraction", "fix_validation_errors",
     "assess_confidence", "validate_document"}

Suggested == op = "validate_document" /\ pc = "suggested"

\* C18: for every model-service outcome and every record, the operations
\* extract_structured_data, self_consistency_extraction, assess_confidence,
\* fix_validation_errors, validate_document and suggest_corrections raise no
\* exception to their caller and return a structured result: a mapping with
\* data and success, a JSON value, a mapping from field paths to scores, a
\* validation result, a mapping with field_corrections and
\* general_suggestions.
C18_NoException ==
    op \in PublicOperations =>
        /\ ~raised
        /\ (Extracted \/ Voted) => {"data", "success"} \subseteq DOMAIN result
        /\ Fixed => "t" \in DOMAIN result
        /\ Assessed => \A path \in DOMAIN result : DOMAIN result[path] = {"n", "d"}
        /\ Validated =>
               DOMAIN validation = {"is_valid", "errors", "warnings", "field_validations"}
        /\ Suggested => DOMAIN result = {"field_corrections", "general_suggestions"}

\* A record on which a check of the validator raised and a field suggestion
\* raised: both came back as messages in the results.
C18_Witness ==
    /\ Suggested
    /\ Aborted
    /\ Among(result.general_suggestions,
             "Unable to generate specific suggestions due to an error")

Consulted == Classified /\ calls = 1

\* C21: when classify consults the model service, the model's answer (the
\* returned type with 0.75, 'invoice' with 0.5 for an invalid answer,
\* 'invoice' with 0.3 on failure) is the result iff its confidence is
\* strictly greater than the heuristic confidence; otherwise the result is
\* the heuristic type and confidence if the heuristic kept a type, else
\* ('invoice', 0.3).
C21_ModelAnswerWins ==
    Consulted =>
        /\ gemini \in
               {[type |-> ty, conf |-> Rat(3, 4)] : ty \in {"invoice", "bill", "prescription"}}
                   \cup {[type |-> "invoice", conf |-> Rat(1, 2)],
                         [type |-> "invoice", conf |-> Rat(3, 10)]}
        /\ result =
               IF heur.conf.n * gemini.conf.d < gemini.conf.n * heur.conf.d THEN gemini
               ELSE IF heur.type # None THEN heur
               ELSE [type |-> "invoice", conf |-> Rat(3, 10)]

\* The model's confidence equals the heuristic's: the model's answer is not
\* taken.
C21_Witness ==
    /\ Consulted
    /\ gemini.conf = heur.conf
    /\ gemini = [type |-> "invoice", conf |-> Rat(1, 2)]
    /\ result = [type |-> "invoice", conf |-> Rat(3, 10)]

\* A value that float() does not convert: a string that is no number, a
\* list or a mapping.
NonNumeric(v) ==
    \/ v.t \in {"list", "dict"}
    \/ (v.t = "str" /\ ~ParseFloat(v.s).ok)

SomeNonNumeric(fields) == \E fld \in fields : Has(fld) /\ NonNumeric(data.f[fld])

\* C22: whenever a value taking part in an arithmetic consistency check (item
\* quantity/unit_price/total, invoice subtotal/tax_amount/total_amount, bill
\* previous_balance/current_charges/payments/total_amount_due) is not numeric,
\* the check is abandoned without adding any warning: the result holds no
\* warning of that check, neither a mismatch nor a message that the check
\* could not be made.
C22_SilentAbandon ==
    /\ (ItemValidated
            /\ \E fld \in {"quantity", "unit_price", "total"} :
                   fld \in DOMAIN data.f /\ NonNumeric(data.f[fld])) =>
           validation.warnings = <<>>
    /\ (Validated /\ docType = "invoice" /\ IsRecord /\ ~Aborted
            /\ SomeNonNumeric({"subtotal", "tax_amount", "total_amount"})) =>
           /\ ~Mentions(validation.warnings, "Could not validate total calculations")
           /\ ~Mentions(validation.warnings, "Calculated total (")
    /\ (Validated /\ docType = "bill" /\ IsRecord /\ ~Aborted
            /\ SomeNonNumeric({"previous_balance", "current_charges", "payments",
                               "total_amount_due"})) =>
           /\ ~Mentions(validation.warnings, "Could not validate bill calculations")
           /\ ~Mentions(validation.warnings, "Calculated total due (")

(***************************************************************************)
(* ConfidenceScorer._date_confidence on strings                            *)
(***************************************************************************)
\* date_patterns: the separator and the lengths of the three digit groups.
DatePatterns ==
    <<[sep |-> "-", first |-> 4, second |-> 2],
      [sep |-> "/", first |-> 2, second |-> 2],
      [sep |-> "-", first |-> 2, second |-> 2]>>

\* ^\d{a}<sep>\d{b}<sep>\d{8-a-b}$ on a string of ten characters
MatchesGroups(s, sep, a, b) ==
    /\ Len(s) = 10
    /\ IsDigits(SubSeq(s, 1, a))
    /\ Char(s, a + 1) = sep
    /\ IsDigits(SubSeq(s, a + 2, a + b + 1))
    /\ Char(s, a + b + 2) = sep
    /\ IsDigits(SubSeq(s, a + b + 3, 10))

\* re.match(pattern, value): `$` also matches before one trailing newline.
MatchesPattern(s, p) ==
    \/ MatchesGroups(s, p.sep, p.first, p.second)
    \/ /\ Len(s) = 11
       /\ Char(s, 11) = "\n"
       /\ MatchesGroups(SubSeq(s, 1, 10), p.sep, p.first, p.second)

\* The try block: which strptime is called is chosen from the value, not
\* from the pattern that matched; TRUE when no ValueError is raised.
DateParses(s) ==
    IF Contains("-", s) /\ Len(s) = 10 THEN StrpTime(s, DateFormats[1]).ok
    ELSE IF Contains("/", s) THEN StrpTime(s, DateFormats[2]).ok
    ELSE IF Contains("-", s) THEN StrpTime(s, DateFormats[4]).ok
    ELSE TRUE

\* re.search(r'\d{k}', s)
HasDigitRun(s, k) ==
    \E i \in 1..(Len(s) - k + 1) : IsDigits(SubSeq(s, i, i + k - 1))

RECURSIVE DateConfidenceFrom(_, _)
DateConfidenceFrom(s, i) ==
    IF i > Len(DatePatterns)
    THEN (IF HasDigitRun(s, 4) /\ HasDigitRun(s, 1) THEN Rat(6, 10) ELSE Rat(2, 10))
    ELSE IF MatchesPattern(s, DatePatterns[i])
    THEN (IF DateParses(s) THEN Rat(9, 10) ELSE Rat(4, 10))
    ELSE DateConfidenceFrom(s, i + 1)

\* ConfidenceScorer._date_confidence
DateConfidenceOf(value) ==
    IF value.t # "str" THEN Rat(3, 10) ELSE DateConfidenceFrom(value.s, 1)

Years == {"2024", "1999", "0000"}
TwoDigits == {"01", "02", "12", "13", "15", "29", "31", "00"}

DateTexts ==
    {y \o "-" \o a \o "-" \o b : y \in Years, a \in TwoDigits, b \in TwoDigits}
        \cup {a \o "/" \o b \o "/" \o y : y \in Years, a \in TwoDigits, b \in TwoDigits}
        \cup {a \o "-" \o b \o "-" \o y : y \in Years, a \in TwoDigits, b \in TwoDigits}
        \cup {"", "invalid-date", "March 15, 2024", "2024", "15 Mar", "3/15/2024",
              "2024-3-15", "2024/03/15", "03.15.2024", "15", "2024-03-15\n",
              "03-15-2024\n", "2024-03-15 ", "20240315"}

DateValues == {Str(s) : s \in DateTexts} \cup {Null, Num(Rat(20240315, 1)), List(<<>>)}

InitDate ==
    /\ op = "date_confidence"
    /\ pc = "start"
    /\ ClassifierIdle
    /\ ConcurrentIdle
    /\ ScorerIdle
    /\ docType = None
    /\ requested = 0
    /\ attempt = 0
    /\ results = <<>>
    /\ served = <<>>
    /\ data \in DateValues
    /\ calls = 0
    /\ raised = FALSE
    /\ CliIdle
    /\ AppIdle
    /\ ValidatorIdle
    /\ result = Zero

DateConfidenceOp ==
    /\ op = "date_confidence"
    /\ pc = "start"
    /\ result' = DateConfidenceOf(data)
    /\ pc' = "done"
    /\ UNCHANGED <<cliVars, appVars, op, classifierVars, extractorVars, concurrentVars, scorerVars,
                   validatorVars, calls, raised>>

NextDate == DateConfidenceOp

SpecDate == InitDate /\ [][NextDate]_vars

DateScored == op = "date_confidence" /\ pc = "done"

\* strptime by the format that belongs to pattern i
ValidIn(s, i) == StrpTime(s, DateFormats[IF i = 1 THEN 1 ELSE IF i = 2 THEN 2 ELSE 4]).ok

\* C23: the date sub-check of the confidence scorer returns 0.9 for every
\* string that matches one of the patterns YYYY-MM-DD, MM/DD/YYYY, MM-DD-YYYY
\* and is a valid calendar date in that pattern, 0.4 for a string that
\* matches one of the patterns but is not a valid date, 0.6 for a
\* non-matching string containing a 4-digit and a 1-2 digit group, and 0.2
\* otherwise.
C23_DateSubCheck ==
    (DateScored /\ data.t = "str") =>
        result =
            IF \E i \in 1..3 : MatchesPattern(data.s, DatePatterns[i]) /\ ValidIn(data.s, i)
            THEN Rat(9, 10)
            ELSE IF \E i \in 1..3 : MatchesPattern(data.s, DatePatterns[i])
            THEN Rat(4, 10)
            ELSE IF HasDigitRun(data.s, 4) /\ HasDigitRun(data.s, 1)
            THEN Rat(6, 10)
            ELSE Rat(2, 10)

Entries == {validation.field_validations[i] : i \in DOMAIN validation.field_validations}

Corrections == {result.field_corrections[j] : j \in DOMAIN result.field_corrections}

\* C24: suggest_corrections returns a field correction for every
\* field_validations entry that is invalid and of type date or amount,
\* whatever the entry's value (string or not) and whatever the other entries
\* are.
C24_CorrectionForEveryInvalid ==
    Suggested =>
        \A entry \in Entries :
            (~entry.is_valid /\ entry.type \in {"date", "amount"}) =>
                \E c \in Corrections : c.field = entry.field

\* The amount an entry's value stands for: the number itself, or the number
\* left in a string when everything but digits, point and minus is removed.
AmountOf(v) ==
    IF v.t = "num" THEN [ok |-> TRUE, q |-> v.q]
    ELSE IF v.t = "str" THEN ParseFloat(KeepNumeric(v.s))
    ELSE [ok |-> FALSE, q |-> Zero]

\* C25: for an invalid field_validations entry of type amount whose value is
\* negative (given as a number or as a string), the field correction
\* proposes the absolute value of that amount; for a non-negative parseable
\* value it proposes the parsed numeric value.
C25_AmountCorrection ==
    Suggested =>
        \A entry \in Entries, c \in Corrections :
            (c.field = entry.field /\ entry.type = "amount" /\ AmountOf(entry.value).ok) =>
                c.correction =
                    IF AmountOf(entry.value).q.n < 0
                    THEN "Use positive value: "
                             \o FloatText(Rat(0 - AmountOf(entry.value).q.n,
                                              AmountOf(entry.value).q.d))
                    ELSE "Use numeric format: " \o FloatText(AmountOf(entry.value).q)

(***************************************************************************)
(* process_document_cli (src/main.py): the command-line pipeline.          *)
(* Each stage is one step; `stages` logs the stages run, each with whether *)
(* it succeeded.                                                           *)
(***************************************************************************)
StageOrder ==
    <<"classification", "schema", "extraction", "confidence", "validation", "save">>

StageIndex(name) == CHOOSE i \in 1..Len(StageOrder) : StageOrder[i] = name

Stage(name, ok) == [stage |-> name, ok |-> ok]

StrongText ==
    [kw |-> [t \in ValidTypes |-> IF t = "bill" THEN MaxKeywordHits ELSE 0],
     pat |-> [t \in ValidTypes |-> IF t = "bill" THEN MaxPatternHits ELSE 0]]

CliTexts == {EmptyText, StrongText}

\* What the model service answers the pipeline's extraction calls.
CliResponses ==
    {r \in Responses :
        \/ r.error
        \/ r.body.k = "json" /\ ~r.prose /\ r.body.val \in {DictTagged, DictUntagged, Null}
        \/ r.body.k = "json" /\ r.prose /\ r.body.val = ListOneDict}

\* What it answers the confidence prompt.
CliConfidenceResponses ==
    {r \in ConfidenceResponses :
        \/ r.error
        \/ r.body.k = "json" /\ ~r.prose
              /\ r.body.val \in {Dict([date |-> Num(One)]), List(<<Num(Half)>>)}}

StopsAfterExtractionMut(record) == FALSE

\* `if not extracted_data: ... return False`
StopsAfterExtraction(record) == ~Truthy(record)

InitCli ==
    /\ op = "process_document_cli"
    /\ pc = "classification"
    /\ text \in CliTexts
    /\ extractor = TRUE
    /\ answer = NoAnswer
    /\ heur = NoPair
    /\ gemini = NoPair
    /\ docType \in {None} \cup ValidTypes
    /\ use_self_consistency \in BOOLEAN
    /\ stages = <<>>
    /\ requested = 0
    /\ data = Null
    /\ attempt = 0
    /\ results = <<>>
    /\ served = <<>>
    /\ ConcurrentIdle
    /\ ScorerIdle
    /\ AppIdle
    /\ calls = 0
    /\ raised = FALSE
    /\ ValidatorIdle
    /\ result = FALSE

\* Step 2: classifier.classify(text, extractor), unless a type was given.
CliClassification ==
    /\ op = "process_document_cli"
    /\ pc = "classification"
    /\ IF docType = None
       THEN /\ heur' = ClassifyByHeuristics(text)
            /\ \E ans \in ServiceAnswers :
                  LET consults == ConsultsGemini(ClassifyByHeuristics(text), extractor)
                  IN /\ answer' = IF consults THEN ans ELSE NoAnswer
                     /\ gemini' = IF consults THEN ClassifyWithGemini(ans) ELSE NoPair
                     /\ calls' = IF consults THEN calls + 1 ELSE calls
                     /\ docType' = ClassifyResult(text, extractor, ans).type
            /\ stages' = Append(stages, Stage("classification", TRUE))
       ELSE UNCHANGED <<heur, answer, gemini, calls, docType, stages>>
    /\ pc' = "schema"
    /\ UNCHANGED <<op, text, extractor, requested, data, attempt, results, served,
                   concurrentVars, scorerVars, validatorVars, appVars,
                   use_self_consistency, raised, result>>

\* Step 3: config.get_schema(doc_type); FileNotFoundError returns False.
CliSchema ==
    /\ op = "process_document_cli"
    /\ pc = "schema"
    /\ \E found \in BOOLEAN :
          /\ stages' = Append(stages, Stage("schema", found))
          /\ pc' = IF found THEN "extraction" ELSE "done"
    /\ result' = FALSE
    /\ UNCHANGED <<op, classifierVars, extractorVars, concurrentVars, scorerVars,
                   validatorVars, appVars, use_self_consistency, calls, raised>>

\* Step 4, single extraction: extract_structured_data, then the check of
\* extracted_data.
CliExtract ==
    /\ op = "process_document_cli"
    /\ pc = "extraction"
    /\ ~use_self_consistency
    /\ \E resp \in CliResponses :
          /\ served' = Append(served, resp)
          /\ data' = ExtractStructuredData(resp, docType).data
          /\ stages' = Append(stages,
                 Stage("extraction", Truthy(ExtractStructuredData(resp, docType).data)))
          /\ pc' = IF StopsAfterExtraction(ExtractStructuredData(resp, docType).data)
                   THEN "done" ELSE "confidence"
    /\ calls' = calls + 1
    /\ result' = FALSE
    /\ UNCHANGED <<op, classifierVars, docType, requested, attempt, results,
                   concurrentVars, scorerVars, validatorVars, appVars,
                   use_self_consistency, raised>>

\* Step 4, self-consistency: one iteration of the extraction loop.
CliAttempt ==
    /\ op = "process_document_cli"
    /\ pc = "extraction"
    /\ use_self_consistency
    /\ attempt < NumRuns(requested)
    /\ \E resp \in CliResponses :
          /\ served' = Append(served, resp)
          /\ results' = AppendResult(results, AttemptEntry(attempt, resp))
    /\ calls' = calls + 1
    /\ attempt' = attempt + 1
    /\ UNCHANGED <<op, pc, classifierVars, docType, requested, data,
                   concurrentVars, scorerVars, validatorVars, appVars, cliVars,
                   raised, result>>

\* Step 4, self-consistency: the consensus, then the check of extracted_data.
CliConsensus ==
    /\ op = "process_document_cli"
    /\ pc = "extraction"
    /\ use_self_consistency
    /\ attempt = NumRuns(requested)
    /\ data' = Consensus(results, NumRuns(requested)).data
    /\ stages' = Append(stages,
           Stage("extraction", Truthy(Consensus(results, NumRuns(requested)).data)))
    /\ pc' = IF StopsAfterExtraction(Consensus(results, NumRuns(requested)).data)
             THEN "done" ELSE "confidence"
    /\ result' = FALSE
    /\ UNCHANGED <<op, classifierVars, docType, requested, attempt, results, served,
                   concurrentVars, scorerVars, validatorVars, appVars,
                   use_self_consistency, calls, raised>>

\* Step 5: assess_confidence, then calculate_field_confidence for each path
\* and calculate_overall_confidence. The scorer raises nothing and its scores
\* steer nothing in the pipeline; the step is logged as failed when the
\* model's assessment fell back to the default scores.
CliConfidence ==
    /\ op = "process_document_cli"
    /\ pc = "confidence"
    /\ \E resp \in CliConfidenceResponses :
          /\ served' = Append(served, resp)
          /\ stages' = Append(stages, Stage("confidence", ~FallsBack(resp)))
    /\ calls' = calls + 1
    /\ pc' = "validation"
    /\ UNCHANGED <<op, classifierVars, docType, requested, data, attempt, results,
                   concurrentVars, scorerVars, validatorVars, appVars,
                   use_self_consistency, raised, result>>

\* Step 6: validator.validate_document(extracted_data, doc_type).
CliValidation ==
    /\ op = "process_document_cli"
    /\ pc = "validation"
    /\ validation' = ValidateDocument(data, docType).value
    /\ stages' = Append(stages, Stage("validation", ~ValidateDocument(data, docType).raised))
    /\ pc' = IF ValidateDocument(data, docType).raised THEN "done" ELSE "save"
    /\ UNCHANGED <<op, classifierVars, extractorVars, concurrentVars, scorerVars, appVars,
                   use_self_consistency, calls, raised, result>>

\* save_json(results, output_file): saved or not, the pipeline returns True.
CliSave ==
    /\ op = "process_document_cli"
    /\ pc = "save"
    /\ \E saved \in BOOLEAN : stages' = Append(stages, Stage("save", saved))
    /\ result' = TRUE
    /\ pc' = "done"
    /\ UNCHANGED <<op, classifierVars, extractorVars, concurrentVars, scorerVars,
                   validatorVars, appVars, use_self_consistency, calls, raised>>

NextCli ==
    \/ CliClassification
    \/ CliSchema
    \/ CliExtract
    \/ CliAttempt
    \/ CliConsensus
    \/ CliConfidence
    \/ CliValidation
    \/ CliSave

SpecCli == InitCli /\ [][NextCli]_vars

CliDone == op = "process_document_cli" /\ pc = "done"

\* A stage of the given name was run and failed.
StageFailed(name) == \E i \in 1..Len(stages) : stages[i] = Stage(name, FALSE)

\* C26: the stages of process_document_cli run in the order classification,
\* schema lookup, extraction, confidence scoring, validation, save, none left
\* out after the schema lookup; a failed schema lookup or an extraction
\* without a record is the last stage run and the pipeline returns False; a
\* failed confidence assessment is followed by validation and save and the
\* pipeline returns True.
C26_StageOrder ==
    op = "process_document_cli" =>
        /\ \A i \in 1..(Len(stages) - 1) :
              /\ StageIndex(stages[i].stage) < StageIndex(stages[i + 1].stage)
              /\ stages[i].stage # "classification" =>
                    StageIndex(stages[i + 1].stage) = StageIndex(stages[i].stage) + 1
        /\ \A i \in 1..Len(stages) :
              (stages[i].stage \in {"schema", "extraction"} /\ ~stages[i].ok) =>
                  /\ i = Len(stages)
                  /\ pc = "done"
                  /\ result = FALSE
        /\ (CliDone /\ StageFailed("confidence")) =>
              /\ result = TRUE
              /\ Len(stages) >= 3
              /\ stages[Len(stages) - 1].stage = "validation"
              /\ stages[Len(stages)].stage = "save"

\* An extraction without a record ended the run.
C26_Witness ==
    /\ CliDone
    /\ StageFailed("extraction")
    /\ result = FALSE
    /\ use_self_consistency

\* A run whose confidence assessment failed and which saved its results.
C26_AssessmentFailed ==
    /\ CliDone
    /\ StageFailed("confidence")
    /\ result = TRUE

\* C27: extract_structured_data calls the model service exactly once;
\* self_consistency_extraction with num_runs = n >= 1 calls it exactly n
\* times, one call per attempt in index order: the loop neither stops early
\* after a success nor repeats a failed attempt.
C27_CallCounts ==
    /\ Extracted => (calls = 1 /\ Len(served) = 1)
    /\ (op = "self_consistency_extraction" /\ requested >= 1) =>
          /\ calls = attempt
          /\ Len(served) = attempt
          /\ Len(results) = attempt
          /\ \A i \in 1..Len(results) :
                /\ results[i].attempt = i
                /\ results[i] = AttemptEntry(i - 1, served[i])
          /\ pc = "done" => calls = requested

\* Three attempts asked for: the first succeeded, the second failed, and the
\* service was still called three times.
C27_Witness ==
    /\ Voted
    /\ requested = 3
    /\ results[1].success
    /\ ~results[2].success
    /\ calls = 3

\* C28: in every result of extract_structured_data and of
\* self_consistency_extraction, success is true exactly when the record is
\* not null; a successful result holds a mapping, a failed one a null record
\* and an error string.
C28_SuccessIffRecord ==
    (Extracted \/ Voted) =>
        /\ result.success <=> result.data # Null
        /\ result.success => result.data.t = "dict"
        /\ ~result.success => (result.data = Null /\ "error" \in DOMAIN result)

\* The record carries a currency that is not null and not one of the known
\* codes in any letter case.
UnknownCurrency ==
    /\ IsRecord
    /\ Has("currency")
    /\ data.f.currency # Null
    /\ ValidateCurrency(data.f.currency) # Valid

\* C30: for every invoice, bill or prescription whose currency is present and
\* not a known code, the result of validate_document holds an error for field
\* 'currency' and a field_validations entry for it, whatever the record's
\* other fields hold.
C30_CurrencyChecked ==
    (Validated /\ docType \in ValidTypes /\ UnknownCurrency) =>
        /\ Mentions(validation.errors, "Field 'currency': ")
        /\ \E entry \in Entries : entry.field = "currency"

(***************************************************************************)
(* The interactive app (src/app.py): st.session_state under the handlers   *)
(* of its buttons. A button press runs its handler to the end before the   *)
(* next one is handled. `origin` records, for each session entry, the run  *)
(* of process_document that wrote it, and for the scores and the           *)
(* validation result the record they were computed from.                   *)
(***************************************************************************)
MaxSessionRuns == 2

PlainResponse(v) == [error |-> FALSE, prose |-> FALSE, body |-> JsonBody(v)]

\* What the model service answers the app's extraction and repair calls.
AppResponses ==
    {ErrorResponse, PlainResponse(DictUntagged), PlainResponse(WellFormed("invoice")),
     PlainResponse(Null)}

\* What it answers the second and the third attempt of a self-consistency
\* extraction, and the classification prompt.
AppLaterResponses == {ErrorResponse, PlainResponse(DictUntagged)}

AppAnswers == {"prescription", "raises"}

\* What the user can leave in the JSON editor: a record, or text that is no
\* JSON.
AppEdits == {PlainResponse(DictUntagged), PlainResponse(WellFormed("invoice")),
             [error |-> FALSE, prose |-> FALSE, body |-> BrokenBody]}

\* ocr_processor.process_file: the text, readable or empty.
OcrResults == [text : CliTexts, readable : BOOLEAN]

\* results of the three attempts of self_consistency_extraction
AttemptLog(r1, r2, r3) ==
    <<AttemptEntry(0, r1), AttemptEntry(1, r2), AttemptEntry(2, r3)>>

\* extraction_result.get('data') under the Use Self-Consistency checkbox
AppExtraction(flag, dt, r1, r2, r3) ==
    IF flag THEN Consensus(AttemptLog(r1, r2, r3), SelfConsistencyRuns).data
    ELSE ExtractStructuredData(r1, dt).data

\* The paths of field_confidences: those of gemini_confidences, each scored
\* by calculate_field_confidence.
ScoredPaths(record, resp) == DOMAIN AssessConfidence(record, resp)

\* How far process_document gets: 0 the OCR engine failed to start, 1 no
\* text, 2 no schema or no record, 3 to the end.
Progress(started, ocr, found, record) ==
    IF ~started THEN 0
    ELSE IF ~ocr.readable THEN 1
    ELSE IF ~found \/ ~Truthy(record) THEN 2
    ELSE 3

\* st.session_state after process_document.
ProcessDocument(state, reached, ocr, dt, record, scores) ==
    [extracted_data |-> IF reached = 3 THEN record ELSE state.extracted_data,
     confidence_scores |-> IF reached = 3 THEN scores ELSE state.confidence_scores,
     validation_result |-> IF reached = 3 THEN ValidateDocument(record, dt).value
                           ELSE state.validation_result,
     ocr_result |-> IF reached >= 1 THEN ocr ELSE state.ocr_result,
     doc_type |-> IF reached >= 2 THEN dt ELSE state.doc_type,
     processing_complete |-> (reached = 3) \/ state.processing_complete]

\* Which run wrote each entry, after run number r got as far as `reached`.
ProcessOrigin(from, r, reached, record) ==
    [run |-> r,
     ocr_result |-> IF reached >= 1 THEN r ELSE from.ocr_result,
     doc_type |-> IF reached >= 2 THEN r ELSE from.doc_type,
     extracted_data |-> IF reached = 3 THEN r ELSE from.extracted_data,
     confidence_scores |-> IF reached = 3 THEN r ELSE from.confidence_scores,
     validation_result |-> IF reached = 3 THEN r ELSE from.validation_result,
     scored |-> IF reached = 3 THEN record ELSE from.scored,
     validated |-> IF reached = 3 THEN record ELSE from.validated]

InitApp ==
    /\ op = "app"
    /\ pc = "idle"
    /\ ClassifierIdle
    /\ ExtractorIdle
    /\ ConcurrentIdle
    /\ ScorerIdle
    /\ CliIdle
    /\ AppIdle
    /\ calls = 0
    /\ raised = FALSE
    /\ ValidatorIdle
    /\ result = FALSE

\* One run of process_document(uploaded_file).
RunProcessDocument ==
    /\ origin.run < MaxSessionRuns
    /\ \E started \in BOOLEAN, ocr \in OcrResults, ans \in AppAnswers, found \in BOOLEAN,
          flag \in BOOLEAN, r1 \in AppResponses, r2 \in AppLaterResponses,
          r3 \in AppLaterResponses, resp \in CliConfidenceResponses :
          /\ session' = ProcessDocument(session,
                 Progress(started, ocr, found,
                          AppExtraction(flag, ClassifyResult(ocr.text, TRUE, ans).type,
                                        r1, r2, r3)),
                 ocr, ClassifyResult(ocr.text, TRUE, ans).type,
                 AppExtraction(flag, ClassifyResult(ocr.text, TRUE, ans).type, r1, r2, r3),
                 ScoredPaths(AppExtraction(flag, ClassifyResult(ocr.text, TRUE, ans).type,
                                           r1, r2, r3), resp))
          /\ origin' = ProcessOrigin(origin, origin.run + 1,
                 Progress(started, ocr, found,
                          AppExtraction(flag, ClassifyResult(ocr.text, TRUE, ans).type,
                                        r1, r2, r3)),
                 AppExtraction(flag, ClassifyResult(ocr.text, TRUE, ans).type, r1, r2, r3))
          /\ result' = (Progress(started, ocr, found,
                          AppExtraction(flag, ClassifyResult(ocr.text, TRUE, ans).type,
                                        r1, r2, r3)) = 3)
    /\ UNCHANGED <<op, pc, classifierVars, extractorVars, concurrentVars, scorerVars,
                   validatorVars, cliVars, calls, raised>>

\* The Process Document button of the upload tab.
AppProcess ==
    /\ op = "app"
    /\ RunProcessDocument

\* The Re-extract button, shown with the results.
AppReextract ==
    /\ op = "app"
    /\ session.processing_complete
    /\ Truthy(session.extracted_data)
    /\ RunProcessDocument

\* The Fix Validation Errors button, shown with the results.
AppFix ==
    /\ op = "app"
    /\ session.processing_complete
    /\ Truthy(session.extracted_data)
    /\ ~session.validation_result.is_valid
    /\ \E resp \in AppResponses :
          session' = [session EXCEPT
                         !.extracted_data = FixValidationErrors(session.extracted_data, resp)]
    /\ UNCHANGED <<op, pc, classifierVars, extractorVars, concurrentVars, scorerVars,
                   validatorVars, cliVars, origin, calls, raised, result>>

\* The Save Changes button of the JSON editor.
AppSave ==
    /\ op = "app"
    /\ Truthy(session.extracted_data)
    /\ \E edited \in AppEdits :
          session' = IF JsonLoads(edited).ok
                     THEN [session EXCEPT !.extracted_data = JsonLoads(edited).val]
                     ELSE session
    /\ UNCHANGED <<op, pc, classifierVars, extractorVars, concurrentVars, scorerVars,
                   validatorVars, cliVars, origin, calls, raised, result>>

NextApp == AppProcess \/ AppReextract \/ AppFix \/ AppSave

SpecApp == InitApp /\ [][NextApp]_vars

\* C29: whenever processing_complete is true, the stored ocr_result,
\* doc_type, extracted_data, confidence_scores and validation_result were
\* written by the same run of process_document, and the scores and the
\* validation result are the ones computed for the extracted_data now stored.
C29_SessionCoherent ==
    (op = "app" /\ session.processing_complete) =>
        /\ origin.ocr_result = origin.extracted_data
        /\ origin.doc_type = origin.extracted_data
        /\ origin.confidence_scores = origin.extracted_data
        /\ origin.validation_result = origin.extracted_data
        /\ origin.scored = session.extracted_data
        /\ origin.validated = session.extracted_data

====
